---- MODULE Spec2Model ----
(***************************************************************************)
(* Model of Hussh (src/src).                                               *)
(*                                                                         *)
(* Spec: the multi-host fan-out controller (multi_conn.rs), MultiConnection*)
(* and MultiFileTailer.  One fan-out operation is the body of a block_on:  *)
(* a dispatch loop that acquires a semaphore permit and spawns one task    *)
(* per (host, connection) pair into a JoinSet, followed by a join loop     *)
(* that turns every task output into an SSHResult stored in a HashMap.     *)
(*                                                                         *)
(* SpecMR: the views and the check of a MultiResult (multi_conn.rs).       *)
(* SpecSession: one Session, asynchronous (asynchronous.rs, its futures    *)
(* interleaved) or synchronous (connection.rs).                            *)
(* SpecChannel: the reader that turns the messages of an exec channel into *)
(* an SSHResult, asynchronous and synchronous.                             *)
(* SpecTailer: one file tailer, asynchronous or synchronous, and the       *)
(* remote file it follows.                                                 *)
(*                                                                         *)
(* Text is modelled as a sequence of tokens (words, or bytes), so that     *)
(* formatting, decoding and substring tests are computed and not assumed.  *)
(***************************************************************************)
EXTENDS Integers, Sequences, FiniteSets, TLC

VARIABLES
    hosts,        \* MultiConnection.hosts: Vec<String>
    connections,  \* MultiConnection.connections: Vec<AsyncConnection>
    batch_size,   \* MultiConnection.batch_size: usize
    timeout,      \* MultiConnection.timeout: u64
    pc,           \* position of the calling thread: "idle", "dispatch", "join"
    op,           \* the operation in progress, or the last one that returned
    todo,         \* the local `connections` vector still to be dispatched
    semaphore,    \* permits available in the operation's Semaphore
    join_set,     \* the operation's JoinSet: one record per spawned task
    results,      \* the local `results` HashMap of the join loop
    ret,          \* what the last operation returned to the caller
    mft,          \* the MultiFileTailer the caller holds (Option)
    hosts0,       \* history: self.hosts when the operation was called
    lastPruned,   \* history: survivors of the previous operation when it was
                  \* a pruning connect that returned a MultiResult (Option)
    acquired,     \* the controller as a context manager; the handles of its Sessions
    multi_result, \* MultiResult.results: HashMap<String, SSHResult>
    mr_call,      \* what each method of the MultiResult returned when last called
    session,      \* AsyncConnection.session: Option<Arc<Handle>>
    sftp_session, \* AsyncConnection.sftp_session: Option<Arc<SftpSession>>
    futures,      \* the futures of the AsyncConnection that are in flight
    wire,         \* history: handles, channels and SFTP subsystems created so far
    conn,         \* the synchronous Connection (its ssh2 Session, sftp_conn)
    session_ret,  \* what the Session method that returned last returned
    channel,      \* the messages an exec channel still has to deliver
    reader,       \* the locals of the code that reads the channel, and its Result
    remote,       \* the bytes of the remote file a tailer follows
    tailer,       \* TailerState / FileTailer: sftp, init_pos, last_pos, contents
    history,      \* history: the remote file at scope entry, the calls made
    shell,        \* an InteractiveShell or AsyncInteractiveShell and its channel
    auth          \* the credentials of a Session and what its authentication did

ctlVars == <<hosts, connections, batch_size, timeout, pc, op, todo, semaphore,
             join_set, results, ret, mft, hosts0, lastPruned, acquired>>
mrVars == <<multi_result, mr_call>>
sessionVars == <<session, sftp_session, futures, wire, conn, session_ret>>
channelVars == <<channel, reader>>
tailerVars == <<remote, tailer, history>>
shellVars == <<shell>>
authVars == <<auth>>

\* The variables the fan-out controller never touches
otherVars == <<mrVars, sessionVars, channelVars, tailerVars, shellVars, authVars>>

vars == <<ctlVars, otherVars>>

\* The value of the variables of the objects a specification does not build
Unused == <<>>
MRUnused == multi_result = Unused /\ mr_call = Unused
SessionUnused ==
    /\ session = Unused
    /\ sftp_session = Unused
    /\ futures = Unused
    /\ wire = Unused
    /\ conn = Unused
    /\ session_ret = Unused
ChannelUnused == channel = Unused /\ reader = Unused
TailerUnused == remote = Unused /\ tailer = Unused /\ history = Unused
ShellUnused == shell = Unused
AuthUnused == auth = Unused
ControllerUnused ==
    /\ hosts = Unused
    /\ connections = Unused
    /\ batch_size = 0
    /\ timeout = 0
    /\ pc = "idle"
    /\ op = Unused
    /\ todo = Unused
    /\ semaphore = 0
    /\ join_set = Unused
    /\ results = Unused
    /\ ret = Unused
    /\ mft = Unused
    /\ hosts0 = Unused
    /\ lastPruned = Unused
    /\ acquired = Unused

-----------------------------------------------------------------------------
(* Bounds and input sets *)

MaxHosts == 2
MaxBatch == 1
SomeTimeout == 5

HostNames == {"h1", "h2"}
Commands == {"c1", "c2"}
Files == {"f1"}

\* The command a host-to-command mapping gives a host, when it has the host
CommandOf(h) == IF h = "h1" THEN "c1" ELSE "c2"

\* The file a host-to-file mapping gives a host, when it has the host
FileOf(h) == IF h = "h1" THEN "f1" ELSE "f2"

\* Option<T>: None is <<>>, Some(x) is <<x>>
None == <<>>
Some(x) == <<x>>
IsSome(o) == Len(o) = 1
Unwrap(o) == o[1]
UnwrapOr(o, d) == IF IsSome(o) THEN o[1] ELSE d

TimeoutArgs == {None, Some(0), Some(SomeTimeout)}

RECURSIVE SeqsUpTo(_, _)
SeqsUpTo(S, n) ==
    IF n = 0 THEN {<<>>}
    ELSE LET shorter == SeqsUpTo(S, n - 1)
         IN shorter \cup {Append(s, x) : s \in {t \in shorter : Len(t) = n - 1}, x \in S}

Range(s) == {s[i] : i \in 1..Len(s)}

-----------------------------------------------------------------------------
(* Text *)

Contains(text, pat) ==
    \E i \in 0..(Len(text) - Len(pat)) : SubSeq(text, i + 1, i + Len(pat)) = pat

EmptyText == <<>>

\* SSHResult { stdout, stderr, status }
SSHResult(out, err, st) == [stdout |-> out, stderr |-> err, status |-> st]

\* Error texts a per-host future can fail with (format!("{}", e) of the PyErr)
ErrTexts ==
    { <<"RuntimeError:", "Not", "connected">>,
      <<"OSError:", "Too", "many", "open", "files">>,
      <<"OSError:", "[Errno", "24]", "EMFILE">> }

\* Results a remote command can produce
RemoteResults ==
    { SSHResult(<<"out">>, EmptyText, 0),
      SSHResult(EmptyText, <<"boom">>, 1) }

\* Contents a remote file can have
FileContents == { <<"data">> }

TooManyOpenFiles == <<"Too", "many", "open", "files">>
EMFILE == <<"EMFILE">>

\* format!("Connection timed out after {} seconds", timeout) in a PyRuntimeError,
\* then format!("{}", e) in the join loop
ConnectTimeoutText(t) ==
    <<"RuntimeError:", "Connection", "timed", "out", "after", ToString(t), "seconds">>

\* format!("Operation timed out after {} seconds", timeout_secs)
OperationTimeoutText(t) ==
    <<"Operation", "timed", "out", "after", ToString(t), "seconds">>

\* "Too many open files. Try reducing batch_size (current: {}) or increasing ulimit -n"
ResourceExhaustedText(b) ==
    <<"Too", "many", "open", "files.", "Try", "reducing", "batch_size",
      "(current:", ToString(b), ")", "or", "increasing", "ulimit", "-n">>

TaskPanicText == <<"Task", "panic:">>

-----------------------------------------------------------------------------
(* What a per-host future does, and what the spawned task returns *)

\* Output of a task: Ok(value), Err(e), or a JoinError (panic).  `res` is the
\* SSHResult of an execute, `text` the error text or the content of a read.
Out(k, res, text) == [k |-> k, res |-> res, text |-> text]
OkUnit == Out("ok", SSHResult(EmptyText, EmptyText, 0), EmptyText)
OkResult(r) == Out("ok", r, EmptyText)
OkContent(c) == Out("ok", SSHResult(EmptyText, EmptyText, 0), c)
ErrOut(t) == Out("err", SSHResult(EmptyText, EmptyText, 0), t)
Panic == Out("panic", SSHResult(EmptyText, EmptyText, 0), EmptyText)
\* the inner future does not complete before the deadline
Hang == Out("hang", SSHResult(EmptyText, EmptyText, 0), EmptyText)

Failures == {ErrOut(t) : t \in ErrTexts} \cup {Panic}

\* Behaviours of the per-host future of each operation
Behaviours(kind) ==
    CASE kind = "connect" -> {OkUnit} \cup Failures
      [] kind \in {"execute", "execute_map"} ->
            {OkResult(r) : r \in RemoteResults} \cup Failures
      [] kind \in {"sftp_write", "sftp_write_data"} -> {OkUnit} \cup Failures
      [] kind = "sftp_read" -> {OkContent(c) : c \in FileContents} \cup Failures
      [] kind \in {"tail_read", "tail_exit"} ->
            {OkContent(c) : c \in FileContents} \cup Failures
      [] kind = "tail_enter" -> {OkUnit} \cup Failures

\* connect: `if timeout > 0 { timeout(..).await.unwrap_or_else(Err(..)) } else { .. }`
ConnectDeadline(t) == t > 0

ConnectTask_OkOnTimeout(t, raw) ==
    IF ConnectDeadline(t)
    THEN IF raw.k = "hang" THEN OkUnit ELSE raw
    ELSE raw

ConnectTask(t, raw) ==
    IF ConnectDeadline(t)
    THEN IF raw.k = "hang" THEN ErrOut(ConnectTimeoutText(t)) ELSE raw
    ELSE raw

\* execute: `if let Some(timeout_secs) = timeout { timeout(..).await.unwrap_or_else(Ok(..)) }`
ExecuteDeadline(t) == IsSome(t)

ExecuteTask_ErrOnTimeout(t, raw) ==
    IF ExecuteDeadline(t)
    THEN IF raw.k = "hang" THEN ErrOut(OperationTimeoutText(Unwrap(t))) ELSE raw
    ELSE raw

ExecuteTask(t, raw) ==
    IF ExecuteDeadline(t)
    THEN IF raw.k = "hang"
         THEN OkResult(SSHResult(EmptyText, OperationTimeoutText(Unwrap(t)), -1))
         ELSE raw
    ELSE raw

\* execute_map: the same wrapper, written out a second time in the source
ExecuteMapDeadline(t) == IsSome(t)

ExecuteMapTask(t, raw) ==
    IF ExecuteMapDeadline(t)
    THEN IF raw.k = "hang"
         THEN OkResult(SSHResult(EmptyText, OperationTimeoutText(Unwrap(t)), -1))
         ELSE raw
    ELSE raw

\* Whether the task of operation o is wrapped in a deadline
HasDeadline(o) ==
    CASE o.kind = "connect" -> ConnectDeadline(Unwrap(o.timeout))
      [] o.kind = "execute" -> ExecuteDeadline(o.timeout)
      [] o.kind = "execute_map" -> ExecuteMapDeadline(o.timeout)
      [] OTHER -> FALSE

\* The value the spawned task of operation o returns when its future behaves as raw
TaskOutput(o, raw) ==
    CASE o.kind = "connect" -> ConnectTask(Unwrap(o.timeout), raw)
      [] o.kind = "execute" -> ExecuteTask(o.timeout, raw)
      [] o.kind = "execute_map" -> ExecuteMapTask(o.timeout, raw)
      [] OTHER -> raw

-----------------------------------------------------------------------------
(* The join loops: one match arm per task output *)

\* An insert that empties the map first
Insert_Alone(m, h, r) == (h :> r)

\* results.insert(host, result): the entry of the host is set or replaced
Insert(m, h, r) == (h :> r) @@ m

Continue(m) == [err |-> "none", results |-> m]
Raise(e) == [err |-> e, results |-> <<>>]

IsResourceExhaustion_NoEMFILE(text) == Contains(text, TooManyOpenFiles)

IsResourceExhaustion(text) ==
    Contains(text, TooManyOpenFiles) \/ Contains(text, EMFILE)

ErrResult(text) == SSHResult(EmptyText, text, -1)

ConnectJoin_ErrStatus0(m, h, out) ==
    CASE out.k = "ok" -> Continue(Insert(m, h, SSHResult(EmptyText, EmptyText, 0)))
      [] out.k = "err" ->
            IF IsResourceExhaustion(out.text)
            THEN Raise("resource_exhausted")
            ELSE Continue(Insert(m, h, SSHResult(EmptyText, out.text, 0)))
      [] out.k = "panic" -> Raise("task_panic")

ConnectJoin(m, h, out) ==
    CASE out.k = "ok" -> Continue(Insert(m, h, SSHResult(EmptyText, EmptyText, 0)))
      [] out.k = "err" ->
            IF IsResourceExhaustion(out.text)
            THEN Raise("resource_exhausted")
            ELSE Continue(Insert(m, h, ErrResult(out.text)))
      [] out.k = "panic" -> Raise("task_panic")

ExecuteJoin_DropErr(m, h, out) ==
    CASE out.k = "ok" -> Continue(Insert(m, h, out.res))
      [] out.k = "err" ->
            IF IsResourceExhaustion(out.text)
            THEN Raise("resource_exhausted")
            ELSE Continue(m)
      [] out.k = "panic" -> Raise("task_panic")

ExecuteJoin(m, h, out) ==
    CASE out.k = "ok" -> Continue(Insert(m, h, out.res))
      [] out.k = "err" ->
            IF IsResourceExhaustion(out.text)
            THEN Raise("resource_exhausted")
            ELSE Continue(Insert(m, h, ErrResult(out.text)))
      [] out.k = "panic" -> Raise("task_panic")

ExecuteMapJoin(m, h, out) ==
    CASE out.k = "ok" -> Continue(Insert(m, h, out.res))
      [] out.k = "err" -> Continue(Insert(m, h, ErrResult(out.text)))
      [] out.k = "panic" -> Raise("task_panic")

SftpWriteJoin(m, h, out) ==
    CASE out.k = "ok" -> Continue(Insert(m, h, SSHResult(<<"Ok">>, EmptyText, 0)))
      [] out.k = "err" -> Continue(Insert(m, h, ErrResult(out.text)))
      [] out.k = "panic" -> Raise("task_panic")

SftpReadJoin(m, h, out) ==
    CASE out.k = "ok" -> Continue(Insert(m, h, SSHResult(out.text, EmptyText, 0)))
      [] out.k = "err" -> Continue(Insert(m, h, ErrResult(out.text)))
      [] out.k = "panic" -> Raise("task_panic")

SftpWriteDataJoin(m, h, out) ==
    CASE out.k = "ok" -> Continue(Insert(m, h, SSHResult(<<"Ok">>, EmptyText, 0)))
      [] out.k = "err" -> Continue(Insert(m, h, ErrResult(out.text)))
      [] out.k = "panic" -> Raise("task_panic")

\* format!("Error: {}", e)
ErrorPrefixed(text) == <<"Error:">> \o text

\* MultiFileTailer::read
TailReadJoin(m, h, out) ==
    CASE out.k = "ok" -> Continue(Insert(m, h, out.text))
      [] out.k = "err" -> Continue(Insert(m, h, ErrorPrefixed(out.text)))
      [] out.k = "panic" -> Raise("task_panic")

TailEnterJoin_SkipErr(m, h, out) ==
    CASE out.k = "ok" -> Continue(m)
      [] out.k = "err" -> Continue(m)
      [] out.k = "panic" -> Raise("task_panic")

\* MultiFileTailer::__enter__
TailEnterJoin(m, h, out) ==
    CASE out.k = "ok" -> Continue(m)
      [] out.k = "err" -> Raise("tailer_init_failed")
      [] out.k = "panic" -> Raise("task_panic")

\* MultiFileTailer::__exit__
TailExitJoin(m, h, out) ==
    CASE out.k = "ok" -> Continue(Insert(m, h, out.text))
      [] out.k = "err" -> Continue(Insert(m, h, ErrorPrefixed(out.text)))
      [] out.k = "panic" -> Continue(m)

JoinArm(kind, m, h, out) ==
    CASE kind = "connect" -> ConnectJoin(m, h, out)
      [] kind = "execute" -> ExecuteJoin(m, h, out)
      [] kind = "execute_map" -> ExecuteMapJoin(m, h, out)
      [] kind = "sftp_write" -> SftpWriteJoin(m, h, out)
      [] kind = "sftp_read" -> SftpReadJoin(m, h, out)
      [] kind = "sftp_write_data" -> SftpWriteDataJoin(m, h, out)
      [] kind = "tail_read" -> TailReadJoin(m, h, out)
      [] kind = "tail_enter" -> TailEnterJoin(m, h, out)
      [] kind = "tail_exit" -> TailExitJoin(m, h, out)

-----------------------------------------------------------------------------
(* Construction *)

DefaultBatchSize == 100

\* An AsyncConnection: its host and an identity (two sessions may share a host)
Session(h, i) == [host |-> h, id |-> i]
get_host(c) == c.host

Controller(cs, hs, b, t) ==
    [connections |-> cs, hosts |-> hs, batch_size |-> b, timeout |-> t]

\* MultiConnection::new(connections, batch_size=None, timeout=None)
New(conns, b, t) ==
    Controller(conns, [i \in 1..Len(conns) |-> get_host(conns[i])],
               UnwrapOr(b, DefaultBatchSize), UnwrapOr(t, 0))

\* MultiConnection::from_connections(connections, batch_size=None, timeout=None):
\* one fresh AsyncConnection per synchronous Connection, in order
FromConnections(syncs, b, t) ==
    Controller([i \in 1..Len(syncs) |-> Session(get_host(syncs[i]), i)],
               [i \in 1..Len(syncs) |-> get_host(syncs[i])],
               UnwrapOr(b, DefaultBatchSize), UnwrapOr(t, 0))

\* MultiConnection::from_shared_auth(hosts, .., timeout=0, batch_size=None)
FromSharedAuth(hs, t, b) ==
    Controller([i \in 1..Len(hs) |-> Session(hs[i], i)], hs,
               UnwrapOr(b, DefaultBatchSize), t)

\* Host lists up to renaming of the hosts: a list that names "h2" names "h1"
\* before it.  Two sessions may share a host.
FirstUse(hs) == hs = <<>> \/ hs[1] = "h1"
HostLists == {hs \in SeqsUpTo(HostNames, MaxHosts) : FirstUse(hs)}
SessionLists == {[i \in 1..Len(hs) |-> Session(hs[i], i)] : hs \in HostLists}
BatchArgs == {None} \cup {Some(b) : b \in 0..MaxBatch}
ControllerTimeouts == {0, SomeTimeout}

Controllers ==
    {New(cs, b, t) : cs \in SessionLists, b \in BatchArgs,
                     t \in {None} \cup {Some(x) : x \in ControllerTimeouts}}
    \cup {FromConnections(cs, b, t) : cs \in SessionLists, b \in BatchArgs,
                     t \in {None} \cup {Some(x) : x \in ControllerTimeouts}}
    \cup {FromSharedAuth(hs, t, b) : hs \in HostLists, t \in ControllerTimeouts,
                     b \in BatchArgs}

NoOp == [kind |-> "none", prune |-> FALSE, timeout |-> None,
         command |-> "", cmap |-> <<>>]
NoRet == [kind |-> "none", mr |-> <<>>, text |-> EmptyText]

\* A controller no with-statement has entered.  `handles` are the ids of the
\* Sessions that hold a handle, `scope` the caller's position in the
\* with-statement ("out", "entering", "in", "done"); `entry` is history: the
\* lists when __enter__ was called; `exit` is what __exit__ returned
NoScope == [handles |-> {}, scope |-> "out", entry |-> None, exit |-> None]

\* The controller mc after construction, no operation called
Constructed(mc) ==
        /\ hosts = mc.hosts
        /\ connections = mc.connections
        /\ batch_size = mc.batch_size
        /\ timeout = mc.timeout
        /\ pc = "idle"
        /\ op = NoOp
        /\ todo = <<>>
        /\ semaphore = 0
        /\ join_set = <<>>
        /\ results = <<>>
        /\ ret = NoRet
        /\ mft = None
        /\ hosts0 = mc.hosts
        /\ lastPruned = None
        /\ MRUnused
        /\ SessionUnused
        /\ ChannelUnused
        /\ TailerUnused
        /\ ShellUnused
        /\ AuthUnused

\* The operations of a controller, the handles of its Sessions left aside
Init == \E mc \in Controllers : Constructed(mc) /\ acquired = Unused

\* The operations of a controller used as a context manager, with the handles
\* of its Sessions
InitScope == \E mc \in Controllers : Constructed(mc) /\ acquired = NoScope

-----------------------------------------------------------------------------
(* Calling an operation: the code before block_on *)

Min(a, b) == IF a < b THEN a ELSE b

\* self.hosts.iter().zip(self.connections.iter()).map(|(h, c)| (h.clone(), c.clone()))
Zip(hs, cs, cmd) ==
    [i \in 1..Min(Len(hs), Len(cs)) |-> [host |-> hs[i], conn |-> cs[i], cmd |-> cmd]]

FilterMap_All(hs, cs, cmap) ==
    [i \in 1..Min(Len(hs), Len(cs)) |->
        [host |-> hs[i], conn |-> cs[i],
         cmd |-> IF hs[i] \in DOMAIN cmap THEN cmap[hs[i]] ELSE ""]]

\* execute_map: .filter_map(|(h, c)| host_command_map.get(h).map(|cmd| (h, c, cmd)))
RECURSIVE FilterMap(_, _, _)
FilterMap(hs, cs, cmap) ==
    IF hs = <<>> \/ cs = <<>> THEN <<>>
    ELSE LET rest == FilterMap(Tail(hs), Tail(cs), cmap)
         IN IF Head(hs) \in DOMAIN cmap
            THEN <<[host |-> Head(hs), conn |-> Head(cs), cmd |-> cmap[Head(hs)]]>> \o rest
            ELSE rest

\* The survivors of a pruning connect that returned a MultiResult
Succeeded(mr) == {h \in DOMAIN mr : mr[h].status = 0}

Remember ==
    IF op.kind = "connect" /\ op.prune /\ ret.kind = "ok"
    THEN Some(Succeeded(ret.mr))
    ELSE None

\* Entering block_on: a fresh JoinSet, Semaphore::new(batch_size), and the
\* vector of pairs to dispatch
Begin(o, pairs, permits) ==
    /\ pc = "idle"
    /\ ret.kind = "none"
    /\ pc' = IF pairs = <<>> THEN "join" ELSE "dispatch"
    /\ op' = o
    /\ todo' = pairs
    /\ semaphore' = permits
    /\ join_set' = <<>>
    /\ results' = <<>>
    /\ hosts0' = hosts
    /\ UNCHANGED <<hosts, connections, batch_size, timeout, ret, mft, lastPruned, otherVars>>

\* An operation called on the controller or on its MultiFileTailer
Call(o, pairs, permits) == Begin(o, pairs, permits) /\ UNCHANGED acquired

\* The caller uses the controller directly while it holds no MultiFileTailer;
\* an operation of one never touches the state of the other
Connect(prune, t) ==
    /\ mft = None
    /\ Call([NoOp EXCEPT !.kind = "connect", !.prune = prune,
                      !.timeout = Some(UnwrapOr(t, timeout))],
            Zip(hosts, connections, ""), batch_size)

Execute(command, t) ==
    /\ mft = None
    /\ Call([NoOp EXCEPT !.kind = "execute", !.timeout = t, !.command = command],
            Zip(hosts, connections, command), batch_size)

ExecuteMap(cmap, t) ==
    /\ mft = None
    /\ Call([NoOp EXCEPT !.kind = "execute_map", !.timeout = t, !.cmap = cmap],
            FilterMap(hosts, connections, cmap), batch_size)

SftpWrite ==
    /\ mft = None
    /\ Call([NoOp EXCEPT !.kind = "sftp_write"], Zip(hosts, connections, ""), batch_size)

SftpRead ==
    /\ mft = None
    /\ Call([NoOp EXCEPT !.kind = "sftp_read"], Zip(hosts, connections, ""), batch_size)

SftpWriteData ==
    /\ mft = None
    /\ Call([NoOp EXCEPT !.kind = "sftp_write_data"], Zip(hosts, connections, ""),
            batch_size)

-----------------------------------------------------------------------------
(* MultiFileTailer *)

\* AsyncConnection::create_tailer(remote_file)
create_tailer(c, file) == [conn |-> c, file |-> file]

\* `scope` is not a field of the struct: it is the caller's position in the
\* with-statement that calls __enter__ and __exit__ ("out", "in", "done").
\* `initialized` holds the indices of the tailers whose state (shared by the
\* clones the tasks get) holds an SFTP session
MultiFileTailer(hs, ts, b) ==
    [hosts |-> hs, tailers |-> ts, contents |-> <<>>, batch_size |-> b,
     scope |-> "out", initialized |-> {}]

\* tail_map: .filter_map(|(h, c)| host_file_map.get(h).map(|file| (h, c.create_tailer(file))))
RECURSIVE FilterMapTailers(_, _, _)
FilterMapTailers(hs, cs, fmap) ==
    IF hs = <<>> \/ cs = <<>> THEN <<>>
    ELSE LET rest == FilterMapTailers(Tail(hs), Tail(cs), fmap)
         IN IF Head(hs) \in DOMAIN fmap
            THEN <<[host |-> Head(hs),
                    tailer |-> create_tailer(Head(cs), fmap[Head(hs)])]>> \o rest
            ELSE rest

FileMaps == {[h \in S |-> FileOf(h)] : S \in SUBSET HostNames}

\* MultiConnection::tail(remote_file)
TailOp(file) ==
    /\ pc = "idle"
    /\ ret.kind = "none"
    /\ mft = None
    /\ mft' = Some(MultiFileTailer(
                 hosts,
                 [i \in 1..Min(Len(hosts), Len(connections)) |->
                     [host |-> hosts[i], tailer |-> create_tailer(connections[i], file)]],
                 batch_size))
    /\ UNCHANGED <<hosts, connections, batch_size, timeout, pc, op, todo,
                   semaphore, join_set, results, ret, hosts0, lastPruned, acquired, otherVars>>

\* MultiConnection::tail_map(host_file_map)
TailMap(fmap) ==
    /\ pc = "idle"
    /\ ret.kind = "none"
    /\ mft = None
    /\ LET ts == FilterMapTailers(hosts, connections, fmap)
       IN mft' = Some(MultiFileTailer([i \in 1..Len(ts) |-> ts[i].host], ts, batch_size))
    /\ UNCHANGED <<hosts, connections, batch_size, timeout, pc, op, todo,
                   semaphore, join_set, results, ret, hosts0, lastPruned, acquired, otherVars>>

\* let tailers = self.tailers.clone()
TailerPairs(ts) ==
    [i \in 1..Len(ts) |-> [host |-> ts[i].host, conn |-> ts[i].tailer, cmd |-> ""]]

TailRead ==
    /\ mft # None
    /\ Unwrap(mft).scope \in {"out", "in"}
    /\ Call([NoOp EXCEPT !.kind = "tail_read"], TailerPairs(Unwrap(mft).tailers),
            Unwrap(mft).batch_size)

\* A with-statement enters once; when __enter__ raises, __exit__ is not called
TailEnter ==
    /\ mft # None
    /\ Unwrap(mft).scope = "out"
    /\ Call([NoOp EXCEPT !.kind = "tail_enter"], TailerPairs(Unwrap(mft).tailers),
            Unwrap(mft).batch_size)

TailExit ==
    /\ mft # None
    /\ Unwrap(mft).scope = "in"
    /\ Call([NoOp EXCEPT !.kind = "tail_exit"], TailerPairs(Unwrap(mft).tailers),
            Unwrap(mft).batch_size)

\* The caller lets go of its MultiFileTailer
DropTailer ==
    /\ pc = "idle"
    /\ ret.kind = "none"
    /\ mft # None
    /\ mft' = None
    /\ UNCHANGED <<hosts, connections, batch_size, timeout, pc, op, todo,
                   semaphore, join_set, results, ret, hosts0, lastPruned, acquired, otherVars>>

CommandMaps == {[h \in S |-> CommandOf(h)] : S \in SUBSET HostNames}

-----------------------------------------------------------------------------
(* Inside block_on: the dispatch loop, the tasks, the join loop *)

NoOut == Out("none", SSHResult(EmptyText, EmptyText, 0), EmptyText)

\* `raw` is not program state: it records how the task's future behaved
Task(pair) ==
    [host |-> pair.host, conn |-> pair.conn, cmd |-> pair.cmd,
     st |-> "running", out |-> NoOut, raw |-> NoOut]

CanAcquire_NoSemaphore(permits) == TRUE

\* semaphore.clone().acquire_owned().await succeeds when a permit is available
CanAcquire(permits) == permits > 0

\* One iteration of the dispatch loop: acquire a permit, then set.spawn(..)
Spawn ==
    /\ pc = "dispatch"
    /\ todo # <<>>
    /\ CanAcquire(semaphore)
    /\ semaphore' = semaphore - 1
    /\ join_set' = Append(join_set, Task(Head(todo)))
    /\ todo' = Tail(todo)
    /\ pc' = IF Tail(todo) = <<>> THEN "join" ELSE "dispatch"
    /\ UNCHANGED <<hosts, connections, batch_size, timeout, op, results, ret,
                   mft, hosts0, lastPruned, acquired, otherVars>>

\* enter_async on the i-th tailer of m: when it succeeds the tailer holds an
\* SFTP session and has sought the end of its file
enter_async(m, i, raw) ==
    IF raw.k = "ok" THEN [m EXCEPT !.initialized = @ \cup {i}] ELSE m

\* connect_async on the Session c: when it succeeds the Session holds a handle
connect_async(a, c, raw) ==
    IF raw.k = "ok" THEN [a EXCEPT !.handles = @ \cup {c.id}] ELSE a

\* A spawned task runs to its end: its future completes, fails, panics or
\* (when wrapped) misses the deadline; `_permit` is dropped with the task.
\* The i-th task of a MultiFileTailer works on its i-th tailer
TaskFinish(i) ==
    /\ i \in DOMAIN join_set
    /\ join_set[i].st = "running"
    /\ \E raw \in Behaviours(op.kind) \cup (IF HasDeadline(op) THEN {Hang} ELSE {}) :
          /\ join_set' = [join_set EXCEPT ![i].st = "finished",
                                          ![i].out = TaskOutput(op, raw),
                                          ![i].raw = raw]
          /\ mft' = IF op.kind = "tail_enter"
                    THEN Some(enter_async(Unwrap(mft), i, raw))
                    ELSE mft
          /\ acquired' = IF op.kind = "connect" /\ acquired # Unused
                         THEN connect_async(acquired, join_set[i].conn, raw)
                         ELSE acquired
    /\ semaphore' = semaphore + 1
    /\ UNCHANGED <<hosts, connections, batch_size, timeout, pc, op, todo,
                   results, ret, hosts0, lastPruned, otherVars>>

\* Dropping the JoinSet on an early return: finished outputs are discarded
\* with it; the tasks still running are only scheduled for cancellation
\* (abort does not wait for them) and stay in flight
Aborted(t) == [t EXCEPT !.st = "aborted"]

RECURSIVE DropJoinSet(_)
DropJoinSet(js) ==
    IF js = <<>> THEN <<>>
    ELSE (IF Head(js).st = "running" THEN <<Aborted(Head(js))>> ELSE <<>>)
         \o DropJoinSet(Tail(js))

ErrorText(e) ==
    CASE e = "resource_exhausted" -> ResourceExhaustedText(batch_size)
      [] e = "tailer_init_failed" -> <<"Failed", "to", "initialize", "tailer">>
      [] OTHER -> TaskPanicText

\* One iteration of the join loop: set.join_next().await yields a finished task
Join(i) ==
    /\ pc = "join"
    /\ i \in DOMAIN join_set
    /\ join_set[i].st = "finished"
    /\ LET arm == JoinArm(op.kind, results, join_set[i].host, join_set[i].out)
           joined == [join_set EXCEPT ![i].st = "joined"]
       IN IF arm.err = "none"
          THEN /\ results' = arm.results
               /\ join_set' = joined
               /\ UNCHANGED <<pc, ret>>
          ELSE /\ results' = <<>>
               /\ join_set' = DropJoinSet(joined)
               /\ pc' = "idle"
               /\ ret' = [kind |-> arm.err, mr |-> <<>>, text |-> ErrorText(arm.err)]
    /\ UNCHANGED <<hosts, connections, batch_size, timeout, op, todo, semaphore,
                   mft, hosts0, lastPruned, acquired, otherVars>>

\* connect, after block_on: the indices kept by `if prune_failures { .. }`
Kept(hs, mr) == {i \in 1..Len(hs) : hs[i] \in Succeeded(mr)}

RECURSIVE Keep(_, _, _)
Keep(s, idx, i) ==
    IF i > Len(s) THEN <<>>
    ELSE (IF i \in idx THEN <<s[i]>> ELSE <<>>) \o Keep(s, idx, i + 1)

PruneHosts_KeepFailed(hs, mr) == Keep(hs, {i \in 1..Len(hs) : mr[hs[i]].status # 0}, 1)

PruneHosts(hs, mr) == Keep(hs, Kept(hs, mr), 1)

PruneConnections_Leading(hs, cs, mr) == SubSeq(cs, 1, Cardinality(Kept(hs, mr)))

PruneConnections(hs, cs, mr) == Keep(cs, Kept(hs, mr), 1)

AllJoined == \A i \in DOMAIN join_set : join_set[i].st = "joined"

\* set.join_next() returns None: the operation returns its MultiResult
Return ==
    /\ pc = "join"
    /\ AllJoined
    /\ pc' = "idle"
    /\ ret' = [kind |-> "ok", mr |-> results, text |-> EmptyText]
    /\ results' = <<>>
    /\ join_set' = <<>>
    /\ IF op.kind = "connect" /\ op.prune
       THEN /\ hosts' = PruneHosts(hosts, results)
            /\ connections' = PruneConnections(hosts, connections, results)
       ELSE UNCHANGED <<hosts, connections>>
    /\ CASE op.kind = "tail_exit" ->
                mft' = Some([Unwrap(mft) EXCEPT !.contents = results, !.scope = "done"])
         [] op.kind = "tail_enter" ->
                mft' = Some([Unwrap(mft) EXCEPT !.scope = "in"])
         [] OTHER -> UNCHANGED mft
    /\ UNCHANGED <<batch_size, timeout, op, todo, semaphore, hosts0, lastPruned, acquired, otherVars>>

\* A task aborted by the drop of its JoinSet stops at its next yield point
TaskCancelled(i) ==
    /\ i \in DOMAIN join_set
    /\ join_set[i].st = "aborted"
    /\ join_set' = SubSeq(join_set, 1, i - 1) \o SubSeq(join_set, i + 1, Len(join_set))
    /\ semaphore' = semaphore + 1
    /\ UNCHANGED <<hosts, connections, batch_size, timeout, pc, op, todo,
                   results, ret, mft, hosts0, lastPruned, acquired, otherVars>>

\* __enter__: `slf.connect(false, None)?; Ok(slf)` after connect has returned
\* r: the scope is entered when connect returned a MultiResult, and __enter__
\* raises what connect raised
ScopeEntered(a, r) ==
    IF a.scope = "entering"
    THEN [a EXCEPT !.scope = IF r.kind = "ok" THEN "in" ELSE "out"]
    ELSE a

\* close: `for conn in &self.connections { conn.close_async().await; }`, where
\* close_async leaves the Session without a handle
close_all(a, cs) == [a EXCEPT !.handles = @ \ {cs[i].id : i \in 1..Len(cs)}]

\* __exit__ that closes only when the body raised nothing
exit_OnSuccess(a, cs, cause) ==
    [(IF cause = None THEN close_all(a, cs) ELSE a)
     EXCEPT !.scope = "done",
            !.exit = Some([k |-> "ok", suppress |-> FALSE, cause |-> cause,
                           open |-> a.handles])]

\* __exit__(_exc_type, _exc_value, _traceback): `self.close()?; Ok(false)`;
\* close returns Ok(()).  `cause` and `open` are history: what the body
\* raised and the handles there were when __exit__ was called
exit(a, cs, cause) ==
    [close_all(a, cs)
     EXCEPT !.scope = "done",
            !.exit = Some([k |-> "ok", suppress |-> FALSE, cause |-> cause,
                           open |-> a.handles])]

\* MultiConnection.close()
CloseAll ==
    /\ pc = "idle"
    /\ ret.kind = "none"
    /\ acquired' = close_all(acquired, connections)
    /\ UNCHANGED <<hosts, connections, batch_size, timeout, pc, op, todo, semaphore,
                   join_set, results, ret, mft, hosts0, lastPruned, otherVars>>

\* `with mc:` begins: __enter__ calls connect(false, None).  A with-statement
\* enters once; when __enter__ raises, __exit__ is not called
ScopeEnter ==
    /\ mft = None
    /\ acquired.scope = "out"
    /\ acquired.entry = None
    /\ Begin([NoOp EXCEPT !.kind = "connect", !.prune = FALSE,
                       !.timeout = Some(UnwrapOr(None, timeout))],
             Zip(hosts, connections, ""), batch_size)
    /\ acquired' = [acquired EXCEPT !.scope = "entering",
                                    !.entry = Some([hosts |-> hosts,
                                                    connections |-> connections])]

\* The with-statement ends, its body having raised `cause` or nothing
ScopeExit(cause) ==
    /\ pc = "idle"
    /\ ret.kind = "none"
    /\ acquired.scope = "in"
    /\ acquired' = exit(acquired, connections, cause)
    /\ UNCHANGED <<hosts, connections, batch_size, timeout, pc, op, todo, semaphore,
                   join_set, results, ret, mft, hosts0, lastPruned, otherVars>>

\* What the body of a with-statement raised, if anything
ExitCauses == {None, Some("Exception")}

\* The caller lets go of what the last operation returned
Discard ==
    /\ pc = "idle"
    /\ ret.kind # "none"
    /\ ret' = NoRet
    /\ op' = NoOp
    /\ todo' = <<>>
    /\ semaphore' = 0
    /\ join_set' = <<>>
    /\ lastPruned' = Remember
    /\ acquired' = IF acquired # Unused THEN ScopeEntered(acquired, ret) ELSE acquired
    /\ UNCHANGED <<hosts, connections, batch_size, timeout, pc, results, mft, hosts0, otherVars>>

Next ==
    \/ \E prune \in BOOLEAN, t \in TimeoutArgs : Connect(prune, t)
    \/ \E command \in Commands, t \in TimeoutArgs : Execute(command, t)
    \/ \E cmap \in CommandMaps, t \in TimeoutArgs : ExecuteMap(cmap, t)
    \/ SftpWrite
    \/ SftpRead
    \/ SftpWriteData
    \/ \E file \in Files : TailOp(file)
    \/ \E fmap \in FileMaps : TailMap(fmap)
    \/ TailRead
    \/ TailEnter
    \/ TailExit
    \/ DropTailer
    \/ Spawn
    \/ \E i \in 1..MaxHosts : TaskFinish(i)
    \/ \E i \in 1..MaxHosts : Join(i)
    \/ Return
    \/ \E i \in 1..MaxHosts : TaskCancelled(i)
    \/ Discard

Spec == Init /\ [][Next]_vars

\* The tokio runtime polls every task that can make progress, and the thread
\* inside block_on runs its loops on: each step inside an operation happens
\* when it stays possible, and a task whose future can complete does so.
\* The caller is free to call, or not, the next operation
Fairness ==
    /\ WF_vars(Spawn)
    /\ WF_vars(\E i \in 1..MaxHosts : TaskFinish(i))
    /\ WF_vars(\E i \in 1..MaxHosts : Join(i))
    /\ WF_vars(Return)
    /\ WF_vars(\E i \in 1..MaxHosts : TaskCancelled(i))

FairSpec == Spec /\ Fairness

NextScope ==
    \/ Next
    \/ ScopeEnter
    \/ \E cause \in ExitCauses : ScopeExit(cause)
    \/ CloseAll

SpecScope == InitScope /\ [][NextScope]_vars

-----------------------------------------------------------------------------
(* MultiResult: its views and its check *)

MRHostNames == {"h1", "h2", "h3"}

\* Results of a host: a command that succeeded, one that failed, a task error
MRResults ==
    { SSHResult(<<"out">>, EmptyText, 0),
      SSHResult(EmptyText, <<"boom">>, 1),
      ErrResult(<<"RuntimeError:", "Not", "connected">>) }

\* Every MultiResult over some of the hosts, the empty one included
MultiResults == UNION {[S -> MRResults] : S \in SUBSET MRHostNames}

\* self.results.iter().filter(..).map(|(k, v)| (k.clone(), v.clone())).collect()
FilterResults(m, S) == [h \in S |-> m[h]]

failed_Positive(m) ==
    LET failed_results == FilterResults(m, {h \in DOMAIN m : m[h].status > 0})
    IN IF DOMAIN failed_results = {} THEN None ELSE Some(failed_results)

\* MultiResult.failed
failed(m) ==
    LET failed_results == FilterResults(m, {h \in DOMAIN m : m[h].status # 0})
    IN IF DOMAIN failed_results = {} THEN None ELSE Some(failed_results)

\* MultiResult.succeeded
succeeded(m) ==
    LET succeeded_results == FilterResults(m, {h \in DOMAIN m : m[h].status = 0})
    IN IF DOMAIN succeeded_results = {} THEN None ELSE Some(succeeded_results)

\* format!("Operation failed on {} of {} host(s)", failed_count, total_count)
PartialFailureMessage(failed_count, total_count) ==
    <<"Operation", "failed", "on", ToString(failed_count), "of",
      ToString(total_count), "host(s)">>

NoException == [kind |-> "ok", msg |-> EmptyText, succeeded |-> None, failed |-> None]

raise_if_any_failed_CountsSucceeded(m) ==
    LET failed_count == Cardinality({h \in DOMAIN m : m[h].status # 0})
        total_count == Cardinality({h \in DOMAIN m : m[h].status = 0})
    IN IF failed_count # 0
       THEN [kind |-> "PartialFailureException",
             msg |-> PartialFailureMessage(failed_count, total_count),
             succeeded |-> succeeded(m),
             failed |-> failed(m)]
       ELSE NoException

\* MultiResult.raise_if_any_failed
raise_if_any_failed(m) ==
    LET failed_count == Cardinality({h \in DOMAIN m : m[h].status # 0})
        total_count == Cardinality(DOMAIN m)
    IN IF failed_count # 0
       THEN [kind |-> "PartialFailureException",
             msg |-> PartialFailureMessage(failed_count, total_count),
             succeeded |-> succeeded(m),
             failed |-> failed(m)]
       ELSE NoException

\* No method of the MultiResult has been called yet
NotCalled == [failed |-> None, succeeded |-> None, raised |-> None]

InitMR ==
    /\ multi_result \in MultiResults
    /\ mr_call = NotCalled
    /\ ControllerUnused
    /\ SessionUnused
    /\ ChannelUnused
    /\ TailerUnused
    /\ ShellUnused
    /\ AuthUnused

GetFailed ==
    /\ mr_call' = [mr_call EXCEPT !.failed = Some(failed(multi_result))]
    /\ UNCHANGED <<ctlVars, multi_result, sessionVars, channelVars, tailerVars, shellVars, authVars>>

GetSucceeded ==
    /\ mr_call' = [mr_call EXCEPT !.succeeded = Some(succeeded(multi_result))]
    /\ UNCHANGED <<ctlVars, multi_result, sessionVars, channelVars, tailerVars, shellVars, authVars>>

RaiseIfAnyFailed ==
    /\ mr_call' = [mr_call EXCEPT !.raised = Some(raise_if_any_failed(multi_result))]
    /\ UNCHANGED <<ctlVars, multi_result, sessionVars, channelVars, tailerVars, shellVars, authVars>>

NextMR == GetFailed \/ GetSucceeded \/ RaiseIfAnyFailed

SpecMR == InitMR /\ [][NextMR]_vars

-----------------------------------------------------------------------------
(* Session: AsyncConnection (asynchronous.rs) and Connection (connection.rs) *)
(*                                                                           *)
(* Every method of an AsyncConnection returns a future that future_into_py   *)
(* spawns on the tokio runtime: the futures of one Session run concurrently, *)
(* and a step of the model is what a future does between two awaits.  The    *)
(* methods of a Connection take the object for the whole call and are        *)
(* single actions.                                                           *)

MaxFutures == 2      \* futures of one AsyncConnection in flight together
MaxHandles == 2      \* connections one AsyncConnection establishes
MaxSubsystems == 2   \* SFTP subsystems opened on the handles of one Session

Slots == 1..MaxFutures

\* sftp_read, sftp_write, sftp_write_data and sftp_list each call
\* get_or_init_sftp and then make one transfer over the handle it returns:
\* the four differ in nothing the model keeps, and their futures are one kind
SftpOps == {"sftp"}
ChannelOps == {"execute", "shell"}
ConnectOps == {"connect", "__aenter__"}
\* close, the scope exit that calls it, and MultiConnection.close that calls
\* close_async on each of its connections
CloseOps == {"close", "__aexit__", "MultiConnection.close"}
TailerEnter == "tail.__aenter__"
TransportOps == SftpOps \cup ChannelOps \cup {TailerEnter}
SessionOps == TransportOps \cup ConnectOps \cup CloseOps

\* The methods that wrap their future in tokio::time::timeout
DeadlineOps == ConnectOps \cup {"execute"}

NotConnected == <<"Not", "connected">>
ConnectionFailed == <<"Connection", "failed:">>
AuthenticationFailed == <<"Authentication", "failed">>
FailedToLoadKey == <<"Failed", "to", "load", "key:">>
ConnectionTimedOut == <<"Connection", "timed", "out">>
CommandTimedOut == <<"Command", "timed", "out">>
FailedToOpenChannel == <<"Failed", "to", "open", "channel:">>
FailedToCreateSFTP == <<"Failed", "to", "create", "SFTP", "session:">>
ChannelError == <<"channel", "error">>
SftpError == <<"Failed", "to", "open", "remote", "file:">>
StatError == <<"Stat", "error:">>

\* A slot that holds no future
IdleFuture ==
    [op |-> "none", pc |-> "idle", handle |-> 0, sftp |-> 0, deadline |-> FALSE,
     nc |-> FALSE]

\* The first await of each method
FirstPc(o) ==
    IF o \in SftpOps THEN "cache"
    ELSE IF o \in ConnectOps THEN "connect"
    ELSE IF o \in CloseOps THEN "close"
    ELSE "session"

\* What a method gave its caller.  For a Connection, op names the method and
\* before is the timeout of the ssh2 session when it was called; for an
\* AsyncConnection the method is the op of the future that the step ends
SessionRet(o, kind, text) == [op |-> o, kind |-> kind, text |-> text, before |-> 0]

NoSessionRet == SessionRet("none", "none", EmptyText)

\* History: the handles established so far, the handle of every SFTP
\* subsystem created for the cache so far, the fields as the first close
\* left them, whether close has run again since
NoWire(variant, n) ==
    [variant |-> variant, handles |-> n, subsystems |-> <<>>, closed |-> None,
     again |-> FALSE]

\* AsyncConnection::new, or Connection::new which connects before it returns
InitSession ==
    /\ \/ /\ session = None
          /\ sftp_session = None
          /\ futures = [f \in Slots |-> IdleFuture]
          /\ wire = NoWire("async", 0)
          /\ conn = Unused
       \/ /\ session = Unused
          /\ sftp_session = Unused
          /\ futures = Unused
          /\ wire = NoWire("sync", 1)
          /\ \E t \in {0, SomeTimeout} :
                conn = [session_timeout |-> t, sftp_conn |-> None,
                        disconnected |-> FALSE]
    /\ session_ret = NoSessionRet
    /\ ControllerUnused
    /\ MRUnused
    /\ ChannelUnused
    /\ TailerUnused
    /\ ShellUnused
    /\ AuthUnused

Async == wire.variant = "async"
Sync == wire.variant = "sync"

\* The future of slot f after one more step taken in the current state: nc
\* records that the Session had no handle when the method was called and at
\* every step of its future since
Stepped(f) == [futures[f] EXCEPT !.nc = @ /\ session = None]

\* The future of slot f returns
Finish(f, kind, text) ==
    /\ futures' = [futures EXCEPT ![f] = IdleFuture]
    /\ session_ret' = SessionRet("future", kind, text)

\* A method of the AsyncConnection is called: its future is spawned
StartFuture(f, o, d) ==
    /\ Async
    /\ futures[f].pc = "idle"
    /\ \A g \in 1..(f - 1) : futures[g].pc # "idle"
    /\ d => o \in DeadlineOps
    /\ futures' = [futures EXCEPT ![f] =
           [IdleFuture EXCEPT !.op = o, !.pc = FirstPc(o), !.deadline = d,
                              !.nc = (o \in TransportOps /\ session = None)]]
    /\ UNCHANGED <<session, sftp_session, wire, conn, session_ret>>
    /\ UNCHANGED <<ctlVars, mrVars, channelVars, tailerVars, shellVars, authVars>>

\* connect, __aenter__: russh::client::connect and the authentication
Establish(f, outcome) ==
    /\ Async
    /\ futures[f].pc = "connect"
    /\ outcome = "timed_out" => futures[f].deadline
    /\ IF outcome = "ok"
       THEN /\ wire.handles < MaxHandles
            /\ wire' = [wire EXCEPT !.handles = @ + 1]
            /\ futures' = [futures EXCEPT ![f] =
                   [Stepped(f) EXCEPT !.pc = "store", !.handle = wire.handles + 1]]
            /\ UNCHANGED session_ret
       ELSE /\ Finish(f,
                      IF outcome = "timed_out" THEN "TimeoutError" ELSE "RuntimeError",
                      CASE outcome = "refused" -> ConnectionFailed
                        [] outcome = "unloadable" -> FailedToLoadKey
                        [] outcome = "denied" -> AuthenticationFailed
                        [] outcome = "timed_out" -> ConnectionTimedOut)
            /\ UNCHANGED wire
    /\ UNCHANGED <<session, sftp_session, conn>>
    /\ UNCHANGED <<ctlVars, mrVars, channelVars, tailerVars, shellVars, authVars>>

connect_NoStore(s, handle) == s

\* connect, __aenter__: *guard = Some(Arc::new(session))
connect(s, handle) == [s EXCEPT !.session = Some(handle)]

close_KeepCache(s) == [s EXCEPT !.session = None]

\* close: *sftp_guard = None; *guard = None
close(s) == [session |-> None, sftp_session |-> None]

\* close_async, which MultiConnection.close awaits on each connection: it
\* closes the Session as close does
close_async(s) == close(s)

\* What the future of a close does to the fields
CloseFields(o, s) == IF o = "MultiConnection.close" THEN close_async(s) ELSE close(s)

\* The fields of the AsyncConnection that its methods assign
Fields == [session |-> session, sftp_session |-> sftp_session]

StoreSession(f) ==
    /\ Async
    /\ futures[f].pc = "store"
    /\ futures[f].op \in ConnectOps
    /\ session' = connect(Fields, futures[f].handle).session
    /\ sftp_session' = connect(Fields, futures[f].handle).sftp_session
    /\ Finish(f, "ok", EmptyText)
    /\ UNCHANGED <<wire, conn>>
    /\ UNCHANGED <<ctlVars, mrVars, channelVars, tailerVars, shellVars, authVars>>

\* A timeout that expires after the handle was assigned
connect_timed_out_Stored(s, handle) == [s EXCEPT !.session = Some(handle)]

\* connect, __aenter__: `Err(_) => Err(PyTimeoutError::new_err("Connection
\* timed out"))`: the future `run` is dropped, and the handle it holds with it
connect_timed_out(s, handle) == s

\* The deadline passes while the future waits at `session_arc.lock().await`
StoreTimedOut(f) ==
    /\ Async
    /\ futures[f].pc = "store"
    /\ futures[f].op \in ConnectOps
    /\ futures[f].deadline
    /\ session' = connect_timed_out(Fields, futures[f].handle).session
    /\ sftp_session' = connect_timed_out(Fields, futures[f].handle).sftp_session
    /\ Finish(f, "TimeoutError", ConnectionTimedOut)
    /\ UNCHANGED <<wire, conn>>
    /\ UNCHANGED <<ctlVars, mrVars, channelVars, tailerVars, shellVars, authVars>>

\* close holds the lock of the cache until it has cleared the handle, and no
\* other future holds one lock while it waits for the other: one step
Close(f) ==
    /\ Async
    /\ futures[f].pc = "close"
    /\ session' = CloseFields(futures[f].op, Fields).session
    /\ sftp_session' = CloseFields(futures[f].op, Fields).sftp_session
    /\ wire' = [wire EXCEPT !.closed = IF IsSome(@) THEN @
                                       ELSE Some(CloseFields(futures[f].op, Fields)),
                            !.again = IsSome(wire.closed)]
    /\ Finish(f, "ok", EmptyText)
    /\ UNCHANGED conn
    /\ UNCHANGED <<ctlVars, mrVars, channelVars, tailerVars, shellVars, authVars>>

\* get_or_init_sftp: the cache is read under its lock, and the lock released
CheckCache(f) ==
    /\ Async
    /\ futures[f].pc = "cache"
    /\ futures' = [futures EXCEPT ![f] =
           IF IsSome(sftp_session)
           THEN [Stepped(f) EXCEPT !.pc = "use", !.sftp = Unwrap(sftp_session)]
           ELSE [Stepped(f) EXCEPT !.pc = "session"]]
    /\ UNCHANGED <<session, sftp_session, wire, conn, session_ret>>
    /\ UNCHANGED <<ctlVars, mrVars, channelVars, tailerVars, shellVars, authVars>>

\* guard.as_ref().ok_or_else(|| PyRuntimeError::new_err("Not connected"))?.clone()
ReadSession(f) ==
    /\ Async
    /\ futures[f].pc = "session"
    /\ IF session = None
       THEN Finish(f, "RuntimeError", NotConnected)
       ELSE /\ futures' = [futures EXCEPT ![f] =
                   [Stepped(f) EXCEPT !.pc = "open", !.handle = Unwrap(session)]]
            /\ UNCHANGED session_ret
    /\ UNCHANGED <<session, sftp_session, wire, conn>>
    /\ UNCHANGED <<ctlVars, mrVars, channelVars, tailerVars, shellVars, authVars>>

\* execute, shell: session.channel_open_session()
OpenChannel(f, outcome) ==
    /\ Async
    /\ futures[f].pc = "open"
    /\ futures[f].op \in ChannelOps
    /\ outcome = "timed_out" => futures[f].deadline
    /\ CASE outcome = "ok" ->
              /\ futures' = [futures EXCEPT ![f] =
                     [Stepped(f) EXCEPT !.pc = "run"]]
              /\ UNCHANGED session_ret
         [] outcome = "failed" -> Finish(f, "RuntimeError", ChannelError)
         [] outcome = "timed_out" -> Finish(f, "TimeoutError", CommandTimedOut)
    /\ UNCHANGED <<session, sftp_session, wire, conn>>
    /\ UNCHANGED <<ctlVars, mrVars, channelVars, tailerVars, shellVars, authVars>>

\* execute: exec and the reader loop; shell: request_pty and request_shell
Run(f, outcome) ==
    /\ Async
    /\ futures[f].pc = "run"
    /\ outcome = "timed_out" => futures[f].deadline
    /\ Finish(f,
              CASE outcome = "ok" -> "ok"
                [] outcome = "failed" -> "RuntimeError"
                [] outcome = "timed_out" -> "TimeoutError",
              CASE outcome = "ok" -> EmptyText
                [] outcome = "failed" -> ChannelError
                [] outcome = "timed_out" -> CommandTimedOut)
    /\ UNCHANGED <<session, sftp_session, wire, conn>>
    /\ UNCHANGED <<ctlVars, mrVars, channelVars, tailerVars, shellVars, authVars>>

\* get_or_init_sftp, AsyncFileTailer::__aenter__: channel_open_session,
\* request_subsystem(true, "sftp") and SftpSession::new on the cloned handle
OpenSftp(f, outcome) ==
    /\ Async
    /\ futures[f].pc = "open"
    /\ futures[f].op \in SftpOps \cup {TailerEnter}
    /\ CASE outcome = "ok" ->
              /\ IF futures[f].op \in SftpOps
                 THEN /\ Len(wire.subsystems) < MaxSubsystems
                      /\ wire' = [wire EXCEPT !.subsystems =
                             Append(@, futures[f].handle)]
                      /\ futures' = [futures EXCEPT ![f] =
                             [Stepped(f) EXCEPT !.pc = "store",
                                                !.sftp = Len(wire.subsystems) + 1]]
                 ELSE /\ futures' = [futures EXCEPT ![f] =
                             [Stepped(f) EXCEPT !.pc = "seek"]]
                      /\ UNCHANGED wire
              /\ UNCHANGED session_ret
         [] outcome = "open_failed" ->
              /\ Finish(f, "RuntimeError", FailedToOpenChannel)
              /\ UNCHANGED wire
         [] outcome = "sftp_failed" ->
              /\ Finish(f, "RuntimeError", FailedToCreateSFTP)
              /\ UNCHANGED wire
    /\ UNCHANGED <<session, sftp_session, conn>>
    /\ UNCHANGED <<ctlVars, mrVars, channelVars, tailerVars, shellVars, authVars>>

\* get_or_init_sftp: *sftp_guard = Some(sftp.clone())
StoreCache(f) ==
    /\ Async
    /\ futures[f].pc = "store"
    /\ futures[f].op \in SftpOps
    /\ sftp_session' = Some(futures[f].sftp)
    /\ futures' = [futures EXCEPT ![f] =
           [Stepped(f) EXCEPT !.pc = "use"]]
    /\ UNCHANGED <<session, wire, conn, session_ret>>
    /\ UNCHANGED <<ctlVars, mrVars, channelVars, tailerVars, shellVars, authVars>>

\* sftp_read, sftp_write, sftp_write_data, sftp_list: the transfer over the
\* SFTP handle get_or_init_sftp returned
Use(f, outcome) ==
    /\ Async
    /\ futures[f].pc = "use"
    /\ Finish(f,
              IF outcome = "ok" THEN "ok" ELSE "RuntimeError",
              IF outcome = "ok" THEN EmptyText ELSE SftpError)
    /\ UNCHANGED <<session, sftp_session, wire, conn>>
    /\ UNCHANGED <<ctlVars, mrVars, channelVars, tailerVars, shellVars, authVars>>

\* AsyncFileTailer::__aenter__: state.sftp = Some(sftp) and _seek_end
Seek(f, outcome) ==
    /\ Async
    /\ futures[f].pc = "seek"
    /\ Finish(f,
              IF outcome = "ok" THEN "ok" ELSE "RuntimeError",
              IF outcome = "ok" THEN EmptyText ELSE StatError)
    /\ UNCHANGED <<session, sftp_session, wire, conn>>
    /\ UNCHANGED <<ctlVars, mrVars, channelVars, tailerVars, shellVars, authVars>>

\* Connection::execute: the timeout of the ssh2 session when the call is over.
\* The ? on channel_session and the unwrap on exec leave without restoring it
ExecuteTimeout(original_timeout, t, outcome) ==
    IF outcome \in {"channel_failed", "exec_failed"}
    THEN UnwrapOr(t, original_timeout)
    ELSE original_timeout

EstablishingTimedOut == <<"Timed", "out", "establishing", "channel", "session.">>
ReadTimedOut == <<"Timeout", "reading", "stdout:">>

SyncRet(o, kind, text) ==
    [SessionRet(o, kind, text) EXCEPT !.before = conn.session_timeout]

\* Connection::execute
SyncExecute(t, outcome) ==
    /\ Sync
    /\ conn.disconnected => outcome = "channel_failed"
    /\ conn' = [conn EXCEPT !.session_timeout =
                   ExecuteTimeout(conn.session_timeout, t, outcome)]
    /\ session_ret' =
          CASE outcome = "result" -> SyncRet("execute", "ok", EmptyText)
            [] outcome = "channel_failed" ->
                 SyncRet("execute", "TimeoutError", EstablishingTimedOut)
            [] outcome = "exec_failed" -> SyncRet("execute", "panic", EmptyText)
            [] outcome = "read_failed" ->
                 SyncRet("execute", "TimeoutError", ReadTimedOut)
    /\ UNCHANGED <<session, sftp_session, futures, wire>>
    /\ UNCHANGED <<ctlVars, mrVars, channelVars, tailerVars, shellVars, authVars>>

SyncSftpOps == {"sftp_read", "sftp_write", "sftp_write_data"}

\* Connection::sftp_read, sftp_write, sftp_write_data, each through
\* Connection::sftp, which creates the SFTP subsystem when none is cached
SyncSftp(o, outcome) ==
    /\ Sync
    /\ IF conn.sftp_conn = None
       THEN IF outcome = "sftp_failed"
            THEN /\ session_ret' = SyncRet(o, "panic", EmptyText)
                 /\ UNCHANGED <<conn, wire>>
            ELSE /\ ~conn.disconnected
                 /\ Len(wire.subsystems) < MaxSubsystems
                 /\ wire' = [wire EXCEPT !.subsystems = Append(@, 1)]
                 /\ conn' = [conn EXCEPT !.sftp_conn =
                        Some(Len(wire.subsystems) + 1)]
                 /\ session_ret' =
                       IF outcome = "ok" THEN SyncRet(o, "ok", EmptyText)
                       ELSE SyncRet(o, "IOError", SftpError)
       ELSE /\ outcome # "sftp_failed"
            /\ conn.disconnected => outcome = "failed"
            /\ session_ret' =
                  IF outcome = "ok" THEN SyncRet(o, "ok", EmptyText)
                  ELSE SyncRet(o, "IOError", SftpError)
            /\ UNCHANGED <<conn, wire>>
    /\ UNCHANGED <<session, sftp_session, futures>>
    /\ UNCHANGED <<ctlVars, mrVars, channelVars, tailerVars, shellVars, authVars>>

SyncOwnSftpOps == {"tail", "remote_copy"}

\* Connection::tail (FileTailer::new) and Connection::remote_copy call
\* session.sftp() themselves: a subsystem of their own, never cached
SyncOwnSftp(o, outcome) ==
    /\ Sync
    /\ IF outcome = "sftp_failed"
       THEN session_ret' =
              IF o = "tail" THEN SyncRet(o, "panic", EmptyText)
              ELSE SyncRet(o, "IOError", SftpError)
       ELSE /\ ~conn.disconnected
            /\ session_ret' = SyncRet(o, "ok", EmptyText)
    /\ UNCHANGED <<session, sftp_session, futures, conn, wire>>
    /\ UNCHANGED <<ctlVars, mrVars, channelVars, tailerVars, shellVars, authVars>>

\* Connection::close: session.disconnect(None, "Bye from Hussh", None), which
\* libssh2 answers with success on a session it has disconnected already
disconnect(c) == [c EXCEPT !.disconnected = TRUE]

SyncCloseOps == {"close", "__exit__"}

\* Connection::close, and Connection::__exit__ which calls it
SyncClose(o) ==
    /\ Sync
    /\ conn' = disconnect(conn)
    /\ wire' = [wire EXCEPT !.closed = IF IsSome(@) THEN @ ELSE Some(disconnect(conn)),
                            !.again = IsSome(wire.closed)]
    /\ session_ret' = SyncRet(o, "ok", EmptyText)
    /\ UNCHANGED <<session, sftp_session, futures>>
    /\ UNCHANGED <<ctlVars, mrVars, channelVars, tailerVars, shellVars, authVars>>

NextSession ==
    \/ \E f \in Slots, o \in SessionOps, d \in BOOLEAN : StartFuture(f, o, d)
    \/ \E f \in Slots, outcome \in {"ok", "refused", "unloadable", "denied", "timed_out"} :
          Establish(f, outcome)
    \/ \E f \in Slots : StoreSession(f)
    \/ \E f \in Slots : StoreTimedOut(f)
    \/ \E f \in Slots : Close(f)
    \/ \E f \in Slots : CheckCache(f)
    \/ \E f \in Slots : ReadSession(f)
    \/ \E f \in Slots, outcome \in {"ok", "failed", "timed_out"} :
          OpenChannel(f, outcome)
    \/ \E f \in Slots, outcome \in {"ok", "failed", "timed_out"} : Run(f, outcome)
    \/ \E f \in Slots, outcome \in {"ok", "open_failed", "sftp_failed"} :
          OpenSftp(f, outcome)
    \/ \E f \in Slots : StoreCache(f)
    \/ \E f \in Slots, outcome \in {"ok", "failed"} : Use(f, outcome)
    \/ \E f \in Slots, outcome \in {"ok", "failed"} : Seek(f, outcome)
    \/ \E t \in TimeoutArgs,
          outcome \in {"result", "channel_failed", "exec_failed", "read_failed"} :
          SyncExecute(t, outcome)
    \/ \E o \in SyncSftpOps, outcome \in {"ok", "failed", "sftp_failed"} :
          SyncSftp(o, outcome)
    \/ \E o \in SyncOwnSftpOps, outcome \in {"ok", "sftp_failed"} :
          SyncOwnSftp(o, outcome)
    \/ \E o \in SyncCloseOps : SyncClose(o)

SpecSession == InitSession /\ [][NextSession]_vars

-----------------------------------------------------------------------------
(* Channel reader: the reader loop of AsyncConnection::execute and           *)
(* read_from_channel                                                         *)

MaxMessages == 3   \* messages a channel delivers before it closes

\* Bytes: an ASCII letter, and the two bytes of U+00E9, each of which is not
\* valid UTF-8 without the other
Bytes == {"a", "c3", "a9"}
Replacement == "U+FFFD"

\* String::from_utf8_lossy: the characters of a byte sequence, each invalid
\* byte replaced by U+FFFD
RECURSIVE Lossy(_)
Lossy(bs) ==
    IF bs = <<>> THEN <<>>
    ELSE IF bs[1] = "a" THEN <<"a">> \o Lossy(Tail(bs))
    ELSE IF bs[1] = "c3" /\ Len(bs) > 1 /\ bs[2] = "a9"
         THEN <<"U+00E9">> \o Lossy(Tail(Tail(bs)))
    ELSE <<Replacement>> \o Lossy(Tail(bs))

\* read_to_string: the byte sequence is UTF-8
ValidUtf8(bs) == \A i \in 1..Len(Lossy(bs)) : Lossy(bs)[i] # Replacement

TwoTo15 == 32768
TwoTo16 == 65536

\* A u32, held as its two 16-bit halves
U32(hi, lo) == [hi |-> hi, lo |-> lo]

AsI32_High15(n) == (n.hi % TwoTo15) * TwoTo16 + n.lo

\* `as i32` of a u32: the same 32 bits read as a signed integer
AsI32(n) ==
    IF n.hi >= TwoTo15 THEN (n.hi - TwoTo16) * TwoTo16 + n.lo
    ELSE n.hi * TwoTo16 + n.lo

\* Exit statuses a server reports (a uint32): 0, 1, 2^31
ExitStatuses == {U32(0, 0), U32(0, 1), U32(TwoTo15, 0)}

NoStatus == U32(0, 0)

\* russh::ChannelMsg
Data(bs) == [msg |-> "Data", data |-> bs, ext |-> 0, exit_status |-> NoStatus]
ExtendedData(bs, ext) ==
    [msg |-> "ExtendedData", data |-> bs, ext |-> ext, exit_status |-> NoStatus]
ExitStatus(n) == [msg |-> "ExitStatus", data |-> <<>>, ext |-> 0, exit_status |-> n]
Eof == [msg |-> "Eof", data |-> <<>>, ext |-> 0, exit_status |-> NoStatus]

ChannelMsgs ==
    {Data(<<b>>) : b \in Bytes}
    \cup {ExtendedData(<<"a">>, 1), ExtendedData(<<"c3">>, 1), ExtendedData(<<"a">>, 2)}
    \cup {ExitStatus(n) : n \in ExitStatuses}
    \cup {Eof}

\* The locals of the reader before the first message
NewReader(impl, deadline) ==
    [impl |-> impl, deadline |-> deadline, stdout |-> <<>>, stderr |-> <<>>,
     exit_code |-> NoStatus, delivered |-> <<>>, result |-> None]

\* The channel of an execute whose exec request was accepted
InitChannel ==
    /\ channel \in SeqsUpTo(ChannelMsgs, MaxMessages)
    /\ \E impl \in {"async", "sync"}, deadline \in BOOLEAN :
          reader = NewReader(impl, deadline)
    /\ ControllerUnused
    /\ MRUnused
    /\ SessionUnused
    /\ TailerUnused
    /\ ShellUnused
    /\ AuthUnused

Reading == reader.result = None

Match_AnyCode(r, msg) ==
    IF msg.msg = "Data" THEN [r EXCEPT !.stdout = @ \o msg.data]
    ELSE IF msg.msg = "ExtendedData" THEN [r EXCEPT !.stderr = @ \o msg.data]
    ELSE IF msg.msg = "ExitStatus" THEN [r EXCEPT !.exit_code = msg.exit_status]
    ELSE r

\* The match of the reader loop
Match(r, msg) ==
    IF msg.msg = "Data" THEN [r EXCEPT !.stdout = @ \o msg.data]
    ELSE IF msg.msg = "ExtendedData"
         THEN IF msg.ext = 1 THEN [r EXCEPT !.stderr = @ \o msg.data] ELSE r
    ELSE IF msg.msg = "ExitStatus" THEN [r EXCEPT !.exit_code = msg.exit_status]
    ELSE r

\* while let Some(msg) = channel.wait().await
Wait ==
    /\ reader.impl = "async"
    /\ Reading
    /\ channel # <<>>
    /\ reader' = [Match(reader, channel[1]) EXCEPT !.delivered = Append(@, channel[1])]
    /\ channel' = Tail(channel)
    /\ UNCHANGED <<ctlVars, mrVars, sessionVars, tailerVars, shellVars, authVars>>

\* The SSHResult the reader of AsyncConnection::execute builds
AsyncResult(r) == Out("ok", SSHResult(Lossy(r.stdout), Lossy(r.stderr), AsI32(r.exit_code)), EmptyText)

\* channel.wait() returns None: the channel is closed
ChannelClosed ==
    /\ reader.impl = "async"
    /\ Reading
    /\ channel = <<>>
    /\ reader' = [reader EXCEPT !.result = Some(AsyncResult(reader))]
    /\ UNCHANGED <<channel, ctlVars, mrVars, sessionVars, tailerVars, shellVars, authVars>>

\* tokio::time::timeout elapses while the reader waits
ReaderTimedOut ==
    /\ reader.impl = "async"
    /\ reader.deadline
    /\ Reading
    /\ reader' = [reader EXCEPT !.result = Some(ErrOut(CommandTimedOut))]
    /\ UNCHANGED <<channel, ctlVars, mrVars, sessionVars, tailerVars, shellVars, authVars>>

RECURSIVE Drain(_, _)
\* libssh2 files every message of the channel under its stream
Drain(r, msgs) ==
    IF msgs = <<>> THEN r
    ELSE Drain([Match(r, msgs[1]) EXCEPT !.delivered = Append(@, msgs[1])], Tail(msgs))

\* read_from_channel: stdout to its end, stderr to its end, wait_close,
\* exit_status; read_to_string fails on bytes that are not UTF-8
read_from_channel(r, timed_out) ==
    IF timed_out \/ ~ValidUtf8(r.stdout)
    THEN ErrOut(<<"Timeout", "reading", "stdout:">>)
    ELSE IF ~ValidUtf8(r.stderr)
    THEN ErrOut(<<"Timeout", "reading", "stderr:">>)
    ELSE Out("ok", SSHResult(Lossy(r.stdout), Lossy(r.stderr), AsI32(r.exit_code)), EmptyText)

ReadFromChannel(timed_out) ==
    /\ reader.impl = "sync"
    /\ Reading
    /\ timed_out => reader.deadline
    /\ LET r == Drain(reader, channel)
       IN reader' = [r EXCEPT !.result = Some(read_from_channel(r, timed_out))]
    /\ channel' = <<>>
    /\ UNCHANGED <<ctlVars, mrVars, sessionVars, tailerVars, shellVars, authVars>>

NextChannel ==
    \/ Wait
    \/ ChannelClosed
    \/ ReaderTimedOut
    \/ \E timed_out \in BOOLEAN : ReadFromChannel(timed_out)

SpecChannel == InitChannel /\ [][NextChannel]_vars

-----------------------------------------------------------------------------
(* File tailer: AsyncFileTailer (asynchronous.rs) and FileTailer            *)
(* (connection.rs), and the remote file                                      *)

MaxFileLen == 3   \* bytes the remote file holds at most

Positions == 0..MaxFileLen

\* The bytes of the remote file: an ASCII letter, and a byte that is not
\* valid UTF-8 where no a9 follows it
FileBytes == {"a", "c3"}

\* &buffer[from..]
SliceFrom(buffer, from) == SubSeq(buffer, from + 1, Len(buffer))

\* Nothing entered yet: entry is the size the stat of the last scope entry
\* reported, fresh that init_pos was unset before that entry and set by it,
\* grew that the file has only grown since, exit how the last scope exit
\* ended, read what the step that led here did if it was a call of read that
\* reached the file
NoHistory ==
    [entry |-> None, fresh |-> FALSE, grew |-> FALSE, exit |-> "none",
     read |-> None]

\* AsyncConnection::tail; Connection::tail and FileTailer::new, which takes
\* an init_pos and opens its SFTP subsystem at once
InitTailer ==
    /\ remote \in SeqsUpTo(FileBytes, MaxFileLen)
    /\ \/ tailer = [impl |-> "async", sftp |-> FALSE, init_pos |-> None,
                    last_pos |-> 0, contents |-> None]
       \/ \E p \in {None, Some(0)} :
             tailer = [impl |-> "sync", sftp |-> TRUE, init_pos |-> p,
                       last_pos |-> 0, contents |-> None]
    /\ history = NoHistory
    /\ ControllerUnused
    /\ MRUnused
    /\ SessionUnused
    /\ ChannelUnused
    /\ ShellUnused
    /\ AuthUnused

InScope == IsSome(history.entry) /\ history.exit = "none"

\* A writer appends to the remote file
AppendByte(b) ==
    /\ Len(remote) < MaxFileLen
    /\ remote' = Append(remote, b)
    /\ history' = [history EXCEPT !.read = None]
    /\ UNCHANGED tailer
    /\ UNCHANGED <<ctlVars, mrVars, sessionVars, channelVars, shellVars, authVars>>

\* The remote file is truncated
Truncate(n) ==
    /\ n < Len(remote)
    /\ remote' = SubSeq(remote, 1, n)
    /\ history' = [history EXCEPT !.grew = FALSE, !.read = None]
    /\ UNCHANGED tailer
    /\ UNCHANGED <<ctlVars, mrVars, sessionVars, channelVars, shellVars, authVars>>

\* What a stat of the remote file answers: its size, no size at all (the
\* size attribute of an SFTP reply is optional), or a failure
StatOutcomes == {"ok", "no_size", "failed"}

\* metadata.size of a stat that did not fail
MetadataSize(buffer, outcome) == IF outcome = "ok" THEN Some(Len(buffer)) ELSE None

\* _seek_end and FileTailer::seek_end on a tailer that has its SFTP handle,
\* size being metadata.size: the asynchronous tailer takes size.unwrap_or(0)
\* for both positions, the synchronous one stores metadata.size in init_pos
seek_end_Reassign(t, size) ==
    [t EXCEPT !.last_pos = UnwrapOr(size, 0),
              !.init_pos = IF t.impl = "async" THEN Some(UnwrapOr(size, 0))
                           ELSE size]

seek_end(t, size) ==
    [t EXCEPT !.last_pos = UnwrapOr(size, 0),
              !.init_pos = IF t.init_pos # None THEN @
                           ELSE IF t.impl = "async" THEN Some(UnwrapOr(size, 0))
                           ELSE size]

\* seek_end: without SFTP handle the asynchronous tailer answers "SFTP
\* session not initialized"; the stat can fail
SeekEnd(outcome) ==
    /\ tailer' = IF tailer.sftp /\ outcome # "failed"
                 THEN seek_end(tailer, MetadataSize(remote, outcome)) ELSE tailer
    /\ history' = [history EXCEPT !.read = None]
    /\ UNCHANGED remote
    /\ UNCHANGED <<ctlVars, mrVars, sessionVars, channelVars, shellVars, authVars>>

\* AsyncFileTailer::read on a tailer that has its SFTP handle: the text, and
\* the tailer after the call
AsyncRead_Rewind(t, buffer, from_pos) ==
    IF from_pos > Len(buffer)
    THEN [k |-> "ok", text |-> <<>>, tailer |-> [t EXCEPT !.last_pos = 0]]
    ELSE [k |-> "ok", text |-> Lossy(SliceFrom(buffer, from_pos)),
          tailer |-> [t EXCEPT !.last_pos = Len(buffer)]]

AsyncRead(t, buffer, from_pos) ==
    IF from_pos > Len(buffer)
    THEN [k |-> "ok", text |-> <<>>,
          tailer |-> [t EXCEPT !.last_pos = Len(buffer)]]
    ELSE [k |-> "ok", text |-> Lossy(SliceFrom(buffer, from_pos)),
          tailer |-> [t EXCEPT !.last_pos = Len(buffer)]]

\* FileTailer::read: seek to from_pos, read_to_string(..).unwrap(), which
\* panics on bytes that are not UTF-8, and last_pos = stream_position(): the
\* seek moves the offset of the handle to from_pos wherever the file ends, a
\* read beyond the end yields nothing and leaves the offset where it is
SyncRead(t, buffer, from_pos) ==
    LET rest == SliceFrom(buffer, from_pos)
    IN IF ValidUtf8(rest)
       THEN [k |-> "ok", text |-> Lossy(rest),
             tailer |-> [t EXCEPT !.last_pos =
                            IF from_pos > Len(buffer) THEN from_pos ELSE Len(buffer)]]
       ELSE [k |-> "panic", text |-> <<>>, tailer |-> t]

FromPositions == {None} \cup {Some(p) : p \in Positions}

\* What a call of read did: from is from_pos.unwrap_or(last_pos), k is "ok"
\* with the text returned, or "panic"; None for a call that raised an
\* exception
ReadRet(from, k, text) ==
    IF k = "err" THEN None ELSE Some([from |-> from, k |-> k, text |-> text])

\* read(from_pos=None): opening or reading the file can fail, and the
\* asynchronous tailer without SFTP handle answers "SFTP session not
\* initialized"
Read(from_pos, outcome) ==
    LET from == UnwrapOr(from_pos, tailer.last_pos)
        r == IF outcome # "ok" \/ ~tailer.sftp
             THEN [k |-> "err", text |-> <<>>, tailer |-> tailer]
             ELSE IF tailer.impl = "async" THEN AsyncRead(tailer, remote, from)
             ELSE SyncRead(tailer, remote, from)
    IN /\ tailer' = r.tailer
       /\ history' = [history EXCEPT !.read = ReadRet(from, r.k, r.text)]
       /\ UNCHANGED remote
       /\ UNCHANGED <<ctlVars, mrVars, sessionVars, channelVars, shellVars, authVars>>

\* The scope is entered, the stat having reported size
Entered(t, size) ==
    [entry |-> Some(UnwrapOr(size, 0)),
     fresh |-> (t.init_pos = None /\ seek_end(t, size).init_pos # None),
     grew |-> TRUE, exit |-> "none", read |-> None]

\* AsyncFileTailer::__aenter__: the session handle is read, an SFTP subsystem
\* opened and kept in the state, then _seek_end; FileTailer::__enter__:
\* seek_end
Enter(outcome) ==
    /\ ~InScope
    /\ CASE outcome \in {"ok", "no_size"} ->
              /\ tailer' = seek_end([tailer EXCEPT !.sftp = TRUE],
                                    MetadataSize(remote, outcome))
              /\ history' = Entered(tailer, MetadataSize(remote, outcome))
         [] outcome = "failed" ->
              /\ tailer' = [tailer EXCEPT !.sftp = TRUE]
              /\ history' = [history EXCEPT !.read = None]
         [] outcome = "not_connected" ->
              /\ tailer.impl = "async"
              /\ history' = [history EXCEPT !.read = None]
              /\ UNCHANGED tailer
    /\ UNCHANGED remote
    /\ UNCHANGED <<ctlVars, mrVars, sessionVars, channelVars, shellVars, authVars>>

\* AsyncFileTailer::__aexit__: the file is read whole and sliced from
\* init_pos.unwrap_or(0); the slice panics when init_pos is beyond its end
AsyncExit(t, buffer) ==
    LET init_pos == UnwrapOr(t.init_pos, 0)
    IN IF ~t.sftp THEN [k |-> "ok", tailer |-> t]
       ELSE IF init_pos > Len(buffer) THEN [k |-> "panic", tailer |-> t]
       ELSE [k |-> "ok",
             tailer |-> [t EXCEPT !.contents = Some(Lossy(SliceFrom(buffer, init_pos)))]]

\* FileTailer::__exit__: self.contents = Some(self.read(self.init_pos))
SyncExit(t, buffer) ==
    LET r == SyncRead(t, buffer, UnwrapOr(t.init_pos, t.last_pos))
    IN IF r.k = "ok"
       THEN [k |-> "ok", tailer |-> [r.tailer EXCEPT !.contents = Some(r.text)]]
       ELSE [k |-> "panic", tailer |-> t]

\* The scope is left
Exit(outcome) ==
    /\ InScope
    /\ LET r == IF tailer.impl = "async" THEN AsyncExit(tailer, remote)
                ELSE SyncExit(tailer, remote)
       IN IF outcome = "ok"
          THEN /\ tailer' = r.tailer
               /\ history' = [history EXCEPT !.exit = r.k, !.read = None]
          ELSE /\ history' = [history EXCEPT !.exit = "io_failed", !.read = None]
               /\ UNCHANGED tailer
    /\ UNCHANGED remote
    /\ UNCHANGED <<ctlVars, mrVars, sessionVars, channelVars, shellVars, authVars>>

NextTailer ==
    \/ \E b \in FileBytes : AppendByte(b)
    \/ \E n \in Positions : Truncate(n)
    \/ \E outcome \in StatOutcomes : SeekEnd(outcome)
    \/ \E from_pos \in FromPositions, outcome \in {"ok", "failed"} :
          Read(from_pos, outcome)
    \/ \E outcome \in StatOutcomes \cup {"not_connected"} : Enter(outcome)
    \/ \E outcome \in {"ok", "failed"} : Exit(outcome)

SpecTailer == InitTailer /\ [][NextTailer]_vars

-----------------------------------------------------------------------------
(* Interactive shell: InteractiveShell (connection.rs) and                   *)
(* AsyncInteractiveShell (asynchronous.rs), and the channel they write to    *)

MaxSent == 6   \* tokens a shell channel carries at most

\* Text sent to a shell: "\n" is the newline, anything else a run of other
\* characters
Newline == "\n"
Payloads == {<<>>, <<"a">>, <<"a", Newline>>}
NewlineArgs == {None, Some(TRUE), Some(FALSE)}

\* What the client puts on the channel beside data: SSH_MSG_CHANNEL_EOF and
\* SSH_MSG_CHANNEL_CLOSE
EofSent == "<eof>"
CloseSent == "<close>"

\* What reading the shell's channel gives
ShellResults == {SSHResult(EmptyText, EmptyText, 0), SSHResult(<<"hi">>, EmptyText, 0)}

\* data.ends_with('\n')
EndsWithNewline(data) == data # <<>> /\ data[Len(data)] = Newline

\* send: `if add_newline && !data.ends_with('\n') { format!("{}\n", data) } else { data }`
Framed(data, add_newline) ==
    IF UnwrapOr(add_newline, TRUE) /\ ~EndsWithNewline(data)
    THEN Append(data, Newline)
    ELSE data

\* Connection::shell(pty) and AsyncConnection::shell(pty) on a connected
\* Session: a channel with a shell, and a PTY when asked for.  `sent` is what
\* the client has put on the channel, `remote_closed` that the reader has seen
\* the server close it; `scope` is the caller's position in a with-statement
\* ("out", "in", "done"), `ret` how the last call ended ("ok", "err", "panic"),
\* `read_ret` the Result of the read the last call made, `read_at` the length
\* of `sent` when a read first returned a Result.  AsyncInteractiveShell has
\* no pty and no result field: its pty is the channel's, its result stays None
NewShell(impl, pty) ==
    [impl |-> impl, pty |-> UnwrapOr(pty, FALSE), sent |-> <<>>,
     remote_closed |-> FALSE, result |-> None, scope |-> "out",
     ret |-> "none", read_ret |-> None, read_at |-> None]

InitShell ==
    /\ \E impl \in {"sync", "async"}, pty \in {None, Some(TRUE), Some(FALSE)} :
          shell = NewShell(impl, pty)
    /\ ControllerUnused
    /\ MRUnused
    /\ SessionUnused
    /\ ChannelUnused
    /\ TailerUnused
    /\ AuthUnused

\* The channel takes no data once the client has sent EOF or CLOSE on it:
\* libssh2 refuses the write
Writable(sh) == EofSent \notin Range(sh.sent) /\ CloseSent \notin Range(sh.sent)

Closed(sh) == CloseSent \in Range(sh.sent)

Ended(sh, kind) == [sh EXCEPT !.ret = kind, !.read_ret = None]

\* InteractiveShell::send: write_all(data.as_bytes()).unwrap(), which writes
\* nothing for an empty buffer and panics when the write fails
SyncSend(sh, data, add_newline, outcome) ==
    LET bytes == Framed(data, add_newline)
    IN IF bytes = <<>> THEN Ended(sh, "ok")
       ELSE IF Writable(sh) /\ outcome = "ok"
       THEN Ended([sh EXCEPT !.sent = @ \o bytes], "ok")
       ELSE Ended(sh, "panic")

\* AsyncInteractiveShell::send: guard.data(data.as_bytes()).await, an error
\* becomes an exception.  The asynchronous shell never sends EOF; a closed
\* channel takes no data
AsyncSend(sh, data, add_newline, outcome) ==
    LET bytes == Framed(data, add_newline)
    IN IF ~Closed(sh) /\ outcome = "ok"
       THEN Ended([sh EXCEPT !.sent = @ \o bytes], "ok")
       ELSE Ended(sh, "err")

\* A read returned the Result r
ReadReturned(sh, r) ==
    [sh EXCEPT !.ret = "ok", !.read_ret = Some(r),
               !.read_at = IF @ = None THEN Some(Len(sh.sent)) ELSE @]

ReadOutcomes == {"ok", "flush_failed", "eof_failed", "read_failed", "close_failed"}

\* InteractiveShell::read: flush, send_eof, read_from_channel; when that
\* fails the channel is closed and result set to None before the error is
\* returned
SyncShellRead(sh, outcome, r) ==
    CASE outcome \in {"flush_failed", "eof_failed"} -> Ended(sh, "err")
      [] outcome = "read_failed" ->
            Ended([sh EXCEPT !.sent = @ \o <<EofSent, CloseSent>>,
                                !.result = None], "err")
      [] outcome = "close_failed" ->
            Ended([sh EXCEPT !.sent = Append(@, EofSent)], "err")
      [] outcome = "ok" ->
            ReadReturned([sh EXCEPT !.sent = Append(@, EofSent),
                                    !.remote_closed = TRUE], r)

\* AsyncInteractiveShell::read: waits up to 2 s for a first data packet, then
\* takes what follows within 50 ms of silence; sends nothing, and returns a
\* Result (status 0) whatever happens
AsyncShellRead(sh, r) == ReadReturned(sh, r)

\* InteractiveShell::close: channel.close().unwrap();
\* AsyncInteractiveShell::close: guard.close().await, an error is returned
ShellClose(sh, outcome) ==
    IF outcome = "ok" THEN Ended([sh EXCEPT !.sent = Append(@, CloseSent)], "ok")
    ELSE Ended(sh, IF sh.impl = "sync" THEN "panic" ELSE "err")

ExitPayload == <<"exit", Newline>>

\* InteractiveShell::__exit__: `if self.pty { self.send("exit\n", Some(false)).unwrap() }`
\* and `self.result = Some(self.read()?)`
SyncShellExit(sh, send_outcome, outcome, r) ==
    LET sent == IF sh.pty THEN SyncSend(sh, ExitPayload, Some(FALSE), send_outcome)
                ELSE sh
    IN IF sh.pty /\ sent.ret = "panic" THEN sent
       ELSE LET read == SyncShellRead(sent, outcome, r)
            IN IF read.ret = "ok"
               THEN [read EXCEPT !.result = read.read_ret]
               ELSE read

\* AsyncInteractiveShell::__aexit__: self.close(py)
AsyncShellExit(sh, outcome) == ShellClose(sh, outcome)

Fits(n) == Len(shell.sent) + n <= MaxSent

ShellUnchanged ==
    UNCHANGED <<ctlVars, mrVars, sessionVars, channelVars, tailerVars, authVars>>

Send(data, add_newline, outcome) ==
    /\ Fits(Len(data) + 1)
    /\ shell' = IF shell.impl = "sync"
                THEN SyncSend(shell, data, add_newline, outcome)
                ELSE AsyncSend(shell, data, add_newline, outcome)
    /\ ShellUnchanged

ShellRead(outcome, r) ==
    /\ Fits(2)
    /\ shell' = IF shell.impl = "sync"
                THEN SyncShellRead(shell, outcome, r)
                ELSE AsyncShellRead(shell, r)
    /\ ShellUnchanged

CloseShell(outcome) ==
    /\ Fits(1)
    /\ shell' = ShellClose(shell, outcome)
    /\ ShellUnchanged

\* __enter__ and __aenter__ return the shell
ShellEnter ==
    /\ shell.scope = "out"
    /\ shell' = Ended([shell EXCEPT !.scope = "in"], "ok")
    /\ ShellUnchanged

\* The with-statement calls __exit__ or __aexit__ when its body ends, with or
\* without an exception: the arguments are not looked at
ShellExit(send_outcome, outcome, r) ==
    /\ shell.scope = "in"
    /\ Fits(4)
    /\ shell' = [(IF shell.impl = "sync"
                  THEN SyncShellExit(shell, send_outcome, outcome, r)
                  ELSE AsyncShellExit(shell, IF outcome = "ok" THEN "ok" ELSE "failed"))
                 EXCEPT !.scope = "done"]
    /\ ShellUnchanged

NextShell ==
    \/ \E data \in Payloads, add_newline \in NewlineArgs, outcome \in {"ok", "failed"} :
          Send(data, add_newline, outcome)
    \/ \E outcome \in ReadOutcomes, r \in ShellResults : ShellRead(outcome, r)
    \/ \E outcome \in {"ok", "failed"} : CloseShell(outcome)
    \/ ShellEnter
    \/ \E send_outcome \in {"ok", "failed"}, outcome \in ReadOutcomes,
          r \in ShellResults : ShellExit(send_outcome, outcome, r)

SpecShell == InitShell /\ [][NextShell]_vars

-----------------------------------------------------------------------------
(* Authentication: Connection::new (connection.rs) and                       *)
(* AsyncConnection::connect with try_default_keys (asynchronous.rs)          *)

\* try_default_keys: `let default_keys = ["id_rsa", "id_ed25519", "id_ecdsa",
\* "id_dsa"]`, each joined to ~/.ssh
DefaultKeys == <<"id_rsa", "id_ed25519", "id_ecdsa", "id_dsa">>

\* What a default key file is to the search: "missing" does not exist,
\* "unloadable" exists and load_secret_key fails; the others load, and the
\* server accepts the key, rejects it, or the request itself fails
KeyStates == {"missing", "unloadable", "accepted", "rejected", "error"}

\* What the server answers to one authentication request
Answers == {"accepted", "rejected", "error"}

\* An optional string of the caller: not given, the empty string, or some text
KeyPaths == {None, Some(""), Some("key")}
Passwords == {None, Some(""), Some("secret")}

\* What authentication meets: whether the key file of the caller loads (with
\* the passphrase given), the server's answer to the request of the chosen
\* strategy, and the state of each default key
Environments == [loads : BOOLEAN, answer : Answers, defaults : [1..Len(DefaultKeys) -> KeyStates]]

\* One authentication request put to the server
Request(method, credential, passphrase) ==
    [method |-> method, credential |-> credential, passphrase |-> passphrase]

\* A finished authentication: the branch taken, the requests put to the
\* server in order, and how it ended
Authenticated(strategy, requests, res) ==
    [strategy |-> strategy, requests |-> requests, res |-> res]

\* try_default_keys as a search that goes on after a key has authenticated
RECURSIVE try_default_keys_NoStop(_, _, _)
try_default_keys_NoStop(i, defaults, requests) ==
    IF i > Len(DefaultKeys) THEN [authenticated |-> FALSE, requests |-> requests]
    ELSE IF defaults[i] \in {"missing", "unloadable"}
         THEN try_default_keys_NoStop(i + 1, defaults, requests)
         ELSE try_default_keys_NoStop(i + 1, defaults,
                  Append(requests, Request("publickey", DefaultKeys[i], None)))

\* try_default_keys(session, username, password) from the i-th default key on:
\* `if path.exists()`, `if let Ok(key_pair) = load_secret_key(path, password)`,
\* `Ok(auth_result) if auth_result.success() => return Ok(true)`,
\* `Ok(_) | Err(_) => continue`, and `Ok(false)` after the last key.  connect
\* passes None as the password
RECURSIVE try_default_keys(_, _, _)
try_default_keys(i, defaults, requests) ==
    IF i > Len(DefaultKeys) THEN [authenticated |-> FALSE, requests |-> requests]
    ELSE IF defaults[i] \in {"missing", "unloadable"}
         THEN try_default_keys(i + 1, defaults, requests)
         ELSE LET sent == Append(requests, Request("publickey", DefaultKeys[i], None))
              IN  IF defaults[i] = "accepted"
                  THEN [authenticated |-> TRUE, requests |-> sent]
                  ELSE try_default_keys(i + 1, defaults, sent)

\* The authentication of AsyncConnection::connect: `if let Some(key_p) =
\* key_path` loads the key with the password as its passphrase and calls
\* authenticate_publickey; `else if let Some(pwd) = password` calls
\* authenticate_password; otherwise try_default_keys.  Ok(false) and Err both
\* become a RuntimeError
AsyncAuthenticate(key_path, password, env) ==
    IF key_path # None
    THEN IF ~env.loads
         THEN Authenticated("publickey_file", <<>>, "Failed to load key")
         ELSE Authenticated("publickey_file",
                  <<Request("publickey", Unwrap(key_path), password)>>,
                  CASE env.answer = "accepted" -> "ok"
                    [] env.answer = "rejected" -> "Authentication failed"
                    [] OTHER -> "Authentication failed: {}")
    ELSE IF password # None
    THEN Authenticated("password",
             <<Request("password", Unwrap(password), None)>>,
             CASE env.answer = "accepted" -> "ok"
               [] env.answer = "rejected" -> "Authentication failed"
               [] OTHER -> "Authentication failed: {}")
    ELSE LET search == try_default_keys(1, env.defaults, <<>>)
         IN  Authenticated("default_keys", search.requests,
                 IF search.authenticated THEN "ok"
                 ELSE "Failed to authenticate with default SSH keys")

\* The authentication of Connection::new: `let password =
\* password.unwrap_or("")`, `let private_key = private_key.unwrap_or("")`;
\* `if !private_key.is_empty()` calls userauth_pubkey_file with the password
\* as passphrase when that is not empty; `else if !password.is_empty()` calls
\* userauth_password; otherwise userauth_agent.  Every failure is an
\* AuthenticationError.  A key file that does not load fails inside
\* userauth_pubkey_file, which is one request of the library
SyncAuthenticate(key_path, password, env) ==
    LET private_key == UnwrapOr(key_path, "")
        pwd == UnwrapOr(password, "")
        res == IF env.answer = "accepted" THEN "ok" ELSE "AuthenticationError"
    IN  IF private_key # ""
        THEN Authenticated("publickey_file",
                 <<Request("publickey", private_key,
                           IF pwd # "" THEN Some(pwd) ELSE None)>>,
                 IF env.loads THEN res ELSE "AuthenticationError")
        ELSE IF pwd # ""
        THEN Authenticated("password", <<Request("password", pwd, None)>>, res)
        ELSE Authenticated("agent", <<Request("agent", "", None)>>, res)

\* A Session that was given its credentials and has not connected
NewCredentials(impl, key_path, password) ==
    [impl |-> impl, key_path |-> key_path, password |-> password,
     env |-> None, done |-> None]

InitAuth ==
    /\ \E impl \in {"sync", "async"}, key_path \in KeyPaths, password \in Passwords :
          auth = NewCredentials(impl, key_path, password)
    /\ ControllerUnused
    /\ MRUnused
    /\ SessionUnused
    /\ ChannelUnused
    /\ TailerUnused
    /\ ShellUnused

\* The Session connects and authenticates, in the environment env
Authenticate(env) ==
    /\ auth.done = None
    /\ auth' = [auth EXCEPT
                  !.env = Some(env),
                  !.done = Some(IF auth.impl = "sync"
                                THEN SyncAuthenticate(auth.key_path, auth.password, env)
                                ELSE AsyncAuthenticate(auth.key_path, auth.password, env))]
    /\ UNCHANGED <<ctlVars, mrVars, sessionVars, channelVars, tailerVars, shellVars>>

NextAuth == \E env \in Environments : Authenticate(env)

SpecAuth == InitAuth /\ [][NextAuth]_vars

-----------------------------------------------------------------------------
(* AsyncInteractiveShell::read: the first-packet wait and the tail drain     *)

\* What one `tokio::time::timeout(.., guard.wait()).await` gives beside a
\* message: Ok(None), the channel is closed, and Err(_), the timer expired
WaitClosed == [msg |-> "None"]
WaitElapsed == [msg |-> "Elapsed"]
NoMessage(ev) == ev.msg \in {WaitClosed.msg, WaitElapsed.msg}

\* The locals of a read that has not waited yet.  `phase` is the loop the
\* read is in ("first", "drain") or "returned"; `delivered` is history: the
\* messages this read took from the channel, `arriving` the messages the
\* channel had to deliver when the read began, `ended` what ended the read
NewShellReader(msgs) ==
    [impl |-> "shell", phase |-> "first", stdout |-> <<>>, stderr |-> <<>>,
     delivered |-> <<>>, arriving |-> msgs, ended |-> None, result |-> None]

\* The Result a read returns from the first loop
EmptyResult == SSHResult(EmptyText, EmptyText, 0)

\* The first loop with `Ok(Some(_)) => return` in place of `continue`
first_packet_EndOnEvent(r, ev) ==
    IF NoMessage(ev)
    THEN [r EXCEPT !.phase = "returned", !.ended = Some(ev),
                   !.result = Some(EmptyResult)]
    ELSE IF ev.msg = "Data"
    THEN [r EXCEPT !.stdout = @ \o ev.data, !.phase = "drain"]
    ELSE IF ev.msg = "ExtendedData"
    THEN [r EXCEPT !.stderr = @ \o ev.data, !.phase = "drain"]
    ELSE [r EXCEPT !.phase = "returned", !.ended = Some(WaitClosed),
                   !.result = Some(EmptyResult)]

\* One turn of the first loop, `timeout(Duration::from_secs(2), guard.wait())`:
\* Data and ExtendedData (of any code) are kept and break the loop, any other
\* message continues it, Ok(None) and Err(_) return the empty SSHResult
first_packet(r, ev) ==
    IF NoMessage(ev)
    THEN [r EXCEPT !.phase = "returned", !.ended = Some(ev),
                   !.result = Some(EmptyResult)]
    ELSE IF ev.msg = "Data"
    THEN [r EXCEPT !.stdout = @ \o ev.data, !.phase = "drain"]
    ELSE IF ev.msg = "ExtendedData"
    THEN [r EXCEPT !.stderr = @ \o ev.data, !.phase = "drain"]
    ELSE r

\* One turn of the second loop, `timeout(Duration::from_millis(50),
\* guard.wait())`: Data and ExtendedData are appended, any other message
\* continues, Ok(None) and Err(_) break; after the loop the SSHResult is built
\* with from_utf8_lossy and status 0
tail_drain(r, ev) ==
    IF NoMessage(ev)
    THEN [r EXCEPT !.phase = "returned", !.ended = Some(ev),
                   !.result = Some(SSHResult(Lossy(r.stdout), Lossy(r.stderr), 0))]
    ELSE IF ev.msg = "Data" THEN [r EXCEPT !.stdout = @ \o ev.data]
    ELSE IF ev.msg = "ExtendedData" THEN [r EXCEPT !.stderr = @ \o ev.data]
    ELSE r

\* One turn of the loop the read is in
read_turn(r, ev) == IF r.phase = "first" THEN first_packet(r, ev) ELSE tail_drain(r, ev)

\* A shell channel with messages to deliver, and a read that begins
InitShellRead ==
    /\ channel \in SeqsUpTo(ChannelMsgs, MaxMessages)
    /\ reader = NewShellReader(channel)
    /\ ControllerUnused
    /\ MRUnused
    /\ SessionUnused
    /\ TailerUnused
    /\ ShellUnused
    /\ AuthUnused

\* guard.wait() yields the next message before the timer expires
ShellWait ==
    /\ reader.phase # "returned"
    /\ channel # <<>>
    /\ reader' = [read_turn(reader, channel[1]) EXCEPT !.delivered = Append(@, channel[1])]
    /\ channel' = Tail(channel)
    /\ UNCHANGED <<ctlVars, mrVars, sessionVars, tailerVars, shellVars, authVars>>

\* guard.wait() yields None: the channel has closed, nothing is left to deliver
ShellWaitClosed ==
    /\ reader.phase # "returned"
    /\ channel = <<>>
    /\ reader' = read_turn(reader, WaitClosed)
    /\ UNCHANGED <<channel, ctlVars, mrVars, sessionVars, tailerVars, shellVars, authVars>>

\* The timer of the wait expires before the next message or the close arrives
ShellWaitElapsed ==
    /\ reader.phase # "returned"
    /\ reader' = read_turn(reader, WaitElapsed)
    /\ UNCHANGED <<channel, ctlVars, mrVars, sessionVars, tailerVars, shellVars, authVars>>

NextShellRead ==
    \/ ShellWait
    \/ ShellWaitClosed
    \/ ShellWaitElapsed

SpecShellRead == InitShellRead /\ [][NextShellRead]_vars

-----------------------------------------------------------------------------
(* The two mutexes of an AsyncConnection: `session` and `sftp_session` are   *)
(* each an Arc<tokio::sync::Mutex<Option<..>>>.  Here a step of a future is   *)
(* the acquisition of one mutex, the code it runs under the guard up to the   *)
(* next await, or the return of a network call; held is the set of mutexes   *)
(* whose guard the future owns.                                              *)

Mutexes == {"session", "sftp_session"}

\* A slot that holds no future
IdleTask == [op |-> "none", pc |-> "idle", held |-> {}]

\* The first await of each method
FirstAwait(o) ==
    IF o \in SftpOps \cup CloseOps THEN "lock_cache"
    ELSE IF o \in ConnectOps THEN "establish"
    ELSE "lock_session"

\* The mutex whose `lock().await` the future is at
Wants(fu) ==
    IF fu.pc \in {"lock_cache", "lock_store"} THEN {"sftp_session"}
    ELSE IF fu.pc = "lock_session" THEN {"session"}
    ELSE {}

\* The code that follows each `lock().await`
AfterLock(fu) ==
    IF fu.pc = "lock_store" THEN "store"
    ELSE IF fu.pc = "lock_cache"
         THEN (IF fu.op \in CloseOps THEN "clear_cache" ELSE "check")
    ELSE IF fu.op \in CloseOps THEN "clear_session"
    ELSE IF fu.op \in ConnectOps THEN "store_session"
    ELSE "read"

\* A guard of the handle that lives until the future returns
drop_AtReturn(held) == held

\* execute, shell, get_or_init_sftp, AsyncFileTailer.__aenter__: the handle
\* is cloned and `drop(guard)` / `drop(session_guard)` comes before the
\* first network call
drop(held) == held \ {"session"}

\* AsyncConnection::new: no handle, no SFTP session, nothing in flight
InitLocks ==
    /\ session = None
    /\ sftp_session = None
    /\ futures = [f \in Slots |-> IdleTask]
    /\ wire = Unused
    /\ conn = Unused
    /\ session_ret = Unused
    /\ ControllerUnused
    /\ MRUnused
    /\ ChannelUnused
    /\ TailerUnused
    /\ ShellUnused
    /\ AuthUnused

\* A method of the AsyncConnection is called: future_into_py spawns its future
Invoke(f, o) ==
    /\ futures[f].pc = "idle"
    /\ futures' = [futures EXCEPT ![f] = [IdleTask EXCEPT !.op = o,
                                                         !.pc = FirstAwait(o)]]
    /\ UNCHANGED <<session, sftp_session, wire, conn, session_ret>>
    /\ UNCHANGED <<ctlVars, mrVars, channelVars, tailerVars, shellVars, authVars>>

\* `lock().await` returns the guard: no other future owns it
Acquire(f) ==
    /\ Wants(futures[f]) # {}
    /\ \A g \in Slots : futures[g].held \cap Wants(futures[f]) = {}
    /\ futures' = [futures EXCEPT ![f] =
           [@ EXCEPT !.held = @ \cup Wants(futures[f]),
                     !.pc = AfterLock(futures[f])]]
    /\ UNCHANGED <<session, sftp_session, wire, conn, session_ret>>
    /\ UNCHANGED <<ctlVars, mrVars, channelVars, tailerVars, shellVars, authVars>>

\* The code a future runs under a guard, up to its next await or its return
Section(f) ==
    LET fu == futures[f] IN
    /\ fu.pc \in {"check", "read", "store", "store_session", "clear_cache",
                  "clear_session"}
    /\ CASE fu.pc = "check" ->
              \* the block of sftp_guard ends with or without a cached session
              /\ futures' = [futures EXCEPT ![f] =
                     [fu EXCEPT !.held = @ \ {"sftp_session"},
                                !.pc = IF sftp_session # None THEN "use"
                                       ELSE "lock_session"]]
              /\ UNCHANGED <<session, sftp_session>>
         [] fu.pc = "read" ->
              \* ok_or_else(.. "Not connected")? returns and drops the guard
              /\ futures' = [futures EXCEPT ![f] =
                     IF session = None THEN IdleTask
                     ELSE [fu EXCEPT !.held = drop(@), !.pc = "open"]]
              /\ UNCHANGED <<session, sftp_session>>
         [] fu.pc = "store" ->
              /\ sftp_session' = Some(1)
              /\ futures' = [futures EXCEPT ![f] =
                     [fu EXCEPT !.held = @ \ {"sftp_session"}, !.pc = "use"]]
              /\ UNCHANGED session
         [] fu.pc = "store_session" ->
              /\ session' = Some(1)
              /\ futures' = [futures EXCEPT ![f] = IdleTask]
              /\ UNCHANGED sftp_session
         [] fu.pc = "clear_cache" ->
              \* sftp_guard lives to the end of the future of close
              /\ sftp_session' = None
              /\ futures' = [futures EXCEPT ![f] =
                     [fu EXCEPT !.pc = "lock_session"]]
              /\ UNCHANGED session
         [] fu.pc = "clear_session" ->
              /\ session' = None
              /\ futures' = [futures EXCEPT ![f] = IdleTask]
              /\ UNCHANGED sftp_session
    /\ UNCHANGED <<wire, conn, session_ret>>
    /\ UNCHANGED <<ctlVars, mrVars, channelVars, tailerVars, shellVars, authVars>>

\* A network call returns: the connection and its authentication, the
\* channel and what is done over it, the SFTP subsystem, a transfer
Network(f, outcome) ==
    LET fu == futures[f] IN
    /\ fu.pc \in {"establish", "open", "use"}
    /\ futures' = [futures EXCEPT ![f] =
           IF outcome = "ok" /\ fu.pc = "establish"
           THEN [fu EXCEPT !.pc = "lock_session"]
           ELSE IF outcome = "ok" /\ fu.pc = "open" /\ fu.op \in SftpOps
           THEN [fu EXCEPT !.pc = "lock_store"]
           ELSE IdleTask]
    /\ UNCHANGED <<session, sftp_session, wire, conn, session_ret>>
    /\ UNCHANGED <<ctlVars, mrVars, channelVars, tailerVars, shellVars, authVars>>

NextLocks ==
    \/ \E f \in Slots, o \in SessionOps : Invoke(f, o)
    \/ \E f \in Slots : Acquire(f)
    \/ \E f \in Slots : Section(f)
    \/ \E f \in Slots, outcome \in {"ok", "failed"} : Network(f, outcome)

\* tokio's Mutex hands the lock to its waiters first come, first served, the
\* runtime polls every future that can run, and the network calls return
FairLocks ==
    \A f \in Slots :
        /\ SF_vars(Acquire(f))
        /\ WF_vars(Section(f))
        /\ WF_vars(\E outcome \in {"ok", "failed"} : Network(f, outcome))

SpecLocks == InitLocks /\ [][NextLocks]_vars /\ FairLocks

-----------------------------------------------------------------------------
(* Properties *)

ControllerOps ==
    {"connect", "execute", "execute_map", "sftp_write", "sftp_read", "sftp_write_data"}
TailerOps == {"tail_read", "tail_enter", "tail_exit"}

\* The tasks of the operation that are spawned and have not finished
InFlight == {i \in DOMAIN join_set : join_set[i].st \in {"running", "aborted"}}

\* The batch_size of the object the operation was called on
OpBatchSize == IF op.kind \in TailerOps THEN Unwrap(mft).batch_size ELSE batch_size

Returned == pc = "idle" /\ ret.kind # "none"
ReturnedOk == pc = "idle" /\ ret.kind = "ok"

\* C1: in every reachable state of every fan-out operation of MultiConnection
\* and of MultiFileTailer, at most batch_size per-host tasks are active
\* (spawned and not yet finished).
C1_ConcurrencyCap ==
    op.kind \in ControllerOps \cup TailerOps => Cardinality(InFlight) <= OpBatchSize

\* The cap binds: batch_size tasks are active and a host still waits for a permit
C1_Witness ==
    /\ pc = "dispatch"
    /\ todo # <<>>
    /\ batch_size >= 1
    /\ Cardinality(InFlight) = batch_size

\* C2: a fan-out operation that dispatches all hosts (connect without pruning,
\* execute, sftp_write, sftp_read, sftp_write_data) and returns a MultiResult
\* returns one whose key set is the set of the controller's hosts: every host
\* is a key (none missing) and every key is a host (none extra); a key of the
\* mapping holds exactly one Result (sessions that share a host share its key).
AllHostOps == {"connect", "execute", "sftp_write", "sftp_read", "sftp_write_data"}

C2_KeysAreHosts ==
    (ReturnedOk /\ op.kind \in AllHostOps /\ ~(op.kind = "connect" /\ op.prune))
        => DOMAIN ret.mr = Range(hosts)

\* An execute over two different hosts returned, one of them failed
C2_Witness ==
    /\ ReturnedOk
    /\ op.kind = "execute"
    /\ hosts = <<"h1", "h2">>
    /\ ret.mr["h1"].status = 0
    /\ ret.mr["h2"].status = -1

\* C3: in every controller operation an error returned by a host's task
\* becomes that host's Result (status -1, empty stdout, the error text in
\* stderr) and leaves the Results of the other hosts as they were; the
\* operation returns a MultiResult holding every dispatched host; it raises
\* only when a task's error is a resource exhaustion or a task panicked.
RaisingOutput(out) ==
    \/ out.k = "panic"
    \/ /\ out.k = "err"
       /\ \/ Contains(out.text, <<"Too", "many", "open", "files">>)
          \/ Contains(out.text, <<"EMFILE">>)

C3_ErrJoined(i) ==
    /\ pc = "join"
    /\ join_set[i].st = "finished"
    /\ join_set[i].out.k = "err"
    /\ i \in DOMAIN join_set'
    /\ join_set'[i].st = "joined"

C3_Step ==
    op.kind \in ControllerOps =>
        /\ \A i \in DOMAIN join_set :
              C3_ErrJoined(i) =>
                /\ pc' = "join"
                /\ results' = (join_set[i].host :>
                                  [stdout |-> <<>>, stderr |-> join_set[i].out.text,
                                   status |-> -1]) @@ results
        /\ (pc = "join" /\ pc' = "idle" /\ ret'.kind # "ok") =>
              \E i \in DOMAIN join_set :
                  join_set[i].st = "finished" /\ RaisingOutput(join_set[i].out)
        /\ (pc = "join" /\ pc' = "idle" /\ ret'.kind = "ok") =>
              DOMAIN ret'.mr = {join_set[i].host : i \in DOMAIN join_set}

C3_ErrorsBecomeResults == [][C3_Step]_vars

\* An operation returned a MultiResult holding a failed host, with the error
\* text of its task, beside a host that succeeded
C3_Witness ==
    /\ ReturnedOk
    /\ op.kind \in ControllerOps
    /\ \E h, g \in DOMAIN ret.mr :
          /\ ret.mr[h].status = -1
          /\ ret.mr[h].stderr \in ErrTexts
          /\ ret.mr[g].status = 0

\* C4: after connect(prune_failures=true) returns a MultiResult, the hosts of
\* the controller are the hosts whose connect Result has status 0, in the
\* order they had before the call; an execute that follows returns a
\* MultiResult keyed by exactly those hosts.
StatusZero(h) == ret.mr[h].status = 0

C4_PruneKeepsSucceeded ==
    /\ (ReturnedOk /\ op.kind = "connect" /\ op.prune)
          => hosts = SelectSeq(hosts0, StatusZero)
    /\ (ReturnedOk /\ op.kind = "execute" /\ IsSome(lastPruned))
          => DOMAIN ret.mr = Unwrap(lastPruned)

\* An execute returned after a pruning connect dropped the first of two hosts
C4_Witness ==
    /\ ReturnedOk
    /\ op.kind = "execute"
    /\ lastPruned = Some({"h2"})
    /\ hosts = <<"h2">>
    /\ connections[1].id = 2

\* C5: hosts and connections have the same length and hosts[i] is the host of
\* connections[i], in every state: after each constructor and after any
\* number of pruning connects.
C5_IndexAligned ==
    /\ Len(hosts) = Len(connections)
    /\ \A i \in 1..Len(hosts) : hosts[i] = get_host(connections[i])

\* A pruning connect dropped the first of two different hosts
C5_Witness ==
    /\ ReturnedOk
    /\ op.kind = "connect"
    /\ op.prune
    /\ hosts0 = <<"h1", "h2">>
    /\ hosts = <<"h2">>

\* C6: when a fan-out operation has returned, with a MultiResult or with an
\* error (resource exhaustion, task panic), none of the tasks it spawned is
\* still in flight: every one of them has been joined.
C6_AllJoinedOnReturn ==
    (Returned /\ op.kind \in ControllerOps) => InFlight = {}

\* C7 as claimed: when connect returns and the error text of one of its
\* finished tasks holds 'Too many open files' or 'EMFILE', what it returns is
\* the resource-exhaustion error, with no MultiResult, and hosts and
\* connections are as they were.
ExhaustedTask(i) ==
    /\ join_set[i].st \in {"finished", "joined"}
    /\ join_set[i].out.k = "err"
    /\ \/ Contains(join_set[i].out.text, <<"Too", "many", "open", "files">>)
       \/ Contains(join_set[i].out.text, <<"EMFILE">>)

ConnectReturnsExhausted ==
    /\ op.kind = "connect"
    /\ pc = "join"
    /\ pc' = "idle"
    /\ \E i \in DOMAIN join_set : ExhaustedTask(i)

C7_Original_Step ==
    ConnectReturnsExhausted =>
        /\ ret'.kind = "resource_exhausted"
        /\ ret'.mr = <<>>
        /\ hosts' = hosts
        /\ connections' = connections

C7_Original == [][C7_Original_Step]_vars

\* C7, amended: when connect returns and the error text of one of its
\* finished tasks holds 'Too many open files' or 'EMFILE', connect returns an
\* error and no MultiResult, and hosts and connections are as they were, also
\* with prune_failures; the error is the resource-exhaustion error, naming
\* batch_size, unless a task that panicked was joined first, and then it is
\* the task-panic error.
C7_Step ==
    ConnectReturnsExhausted =>
        /\ ret'.kind \in {"resource_exhausted", "task_panic"}
        /\ ret'.kind = "resource_exhausted" =>
              ret'.text = <<"Too", "many", "open", "files.", "Try", "reducing",
                            "batch_size", "(current:", ToString(batch_size), ")",
                            "or", "increasing", "ulimit", "-n">>
        /\ ret'.kind = "task_panic" =>
              \E j \in DOMAIN join_set :
                  join_set[j].st = "finished" /\ join_set[j].out.k = "panic"
        /\ ret'.mr = <<>>
        /\ hosts' = hosts
        /\ connections' = connections

C7_ExhaustionAborts == [][C7_Step]_vars

\* A pruning connect over two hosts returned the resource-exhaustion error
\* and kept both hosts
C7_Witness ==
    /\ pc = "idle"
    /\ op.kind = "connect"
    /\ op.prune
    /\ ret.kind = "resource_exhausted"
    /\ hosts = <<"h1", "h2">>
    /\ Len(connections) = 2

\* C8: in execute and execute_map called with a timeout of N seconds, a task
\* whose command has not finished at the deadline ends with the Result
\* stdout '', stderr 'Operation timed out after N seconds', status -1, and a
\* task whose command finished in time ends with the command's own Result;
\* joining either puts that Result under the task's host and does not raise;
\* the operation raises only for a task that failed with a resource
\* exhaustion or panicked.
TimedOutResult(n) ==
    [stdout |-> <<>>,
     stderr |-> <<"Operation", "timed", "out", "after", ToString(n), "seconds">>,
     status |-> -1]

C8_TaskResult(i) ==
    /\ join_set[i].raw.k = "hang" =>
          /\ join_set[i].out.k = "ok"
          /\ join_set[i].out.res = TimedOutResult(Unwrap(op.timeout))
    /\ join_set[i].raw.k = "ok" => join_set[i].out = join_set[i].raw

C8_OkJoined(i) ==
    /\ pc = "join"
    /\ join_set[i].st = "finished"
    /\ join_set[i].out.k = "ok"
    /\ i \in DOMAIN join_set'
    /\ join_set'[i].st = "joined"

C8_Step ==
    (op.kind \in {"execute", "execute_map"} /\ IsSome(op.timeout)) =>
        /\ \A i \in DOMAIN join_set :
              join_set[i].st \in {"finished", "joined"} => C8_TaskResult(i)
        /\ \A i \in DOMAIN join_set :
              C8_OkJoined(i) =>
                 /\ pc' = "join"
                 /\ results' = (join_set[i].host :> join_set[i].out.res) @@ results
        /\ (pc = "join" /\ pc' = "idle" /\ ret'.kind # "ok") =>
              \E i \in DOMAIN join_set :
                  /\ join_set[i].st = "finished"
                  /\ join_set[i].raw.k # "hang"
                  /\ RaisingOutput(join_set[i].out)

C8_ExecuteTimeoutResult == [][C8_Step]_vars

\* An execute with a timeout returned: one host timed out, the other has the
\* Result of its command
C8_Witness ==
    /\ ReturnedOk
    /\ op.kind = "execute"
    /\ op.timeout = Some(SomeTimeout)
    /\ hosts = <<"h1", "h2">>
    /\ ret.mr["h1"] = TimedOutResult(SomeTimeout)
    /\ ret.mr["h2"] = [stdout |-> <<"out">>, stderr |-> <<>>, status |-> 0]

\* C9 as claimed: in connect with a per-task timeout, joining a task whose
\* connect did not finish before the deadline does not raise and puts under
\* its host the Result stdout '', stderr 'Connection timed out', status -1;
\* a MultiResult returned by connect holds every host.
C9_TimedOutJoined(i) ==
    /\ op.kind = "connect"
    /\ pc = "join"
    /\ join_set[i].st = "finished"
    /\ join_set[i].raw.k = "hang"
    /\ i \in DOMAIN join_set'
    /\ join_set'[i].st = "joined"

C9_NoRaise ==
    /\ (op.kind = "connect" /\ pc = "join" /\ pc' = "idle" /\ ret'.kind # "ok") =>
          \E i \in DOMAIN join_set :
              /\ join_set[i].st = "finished"
              /\ join_set[i].raw.k # "hang"
              /\ RaisingOutput(join_set[i].out)
    /\ (op.kind = "connect" /\ pc = "join" /\ pc' = "idle" /\ ret'.kind = "ok") =>
          DOMAIN ret'.mr = Range(hosts)

C9_Original_Step ==
    /\ \A i \in DOMAIN join_set :
          C9_TimedOutJoined(i) =>
             /\ pc' = "join"
             /\ results' = (join_set[i].host :>
                               [stdout |-> <<>>,
                                stderr |-> <<"Connection", "timed", "out">>,
                                status |-> -1]) @@ results
    /\ C9_NoRaise

C9_Original == [][C9_Original_Step]_vars

\* C9, amended: as claimed, but the stderr of the timed-out host's Result is
\* 'RuntimeError: Connection timed out after N seconds', N the timeout of
\* the call: the text of the task's error as the join loop formats it, which
\* holds the words 'Connection timed out'.
C9_Step ==
    /\ \A i \in DOMAIN join_set :
          C9_TimedOutJoined(i) =>
             /\ pc' = "join"
             /\ results' = (join_set[i].host :>
                               [stdout |-> <<>>,
                                stderr |-> <<"RuntimeError:", "Connection", "timed",
                                             "out", "after",
                                             ToString(Unwrap(op.timeout)), "seconds">>,
                                status |-> -1]) @@ results
             /\ Contains(results'[join_set[i].host].stderr,
                         <<"Connection", "timed", "out">>)
    /\ C9_NoRaise

C9_ConnectTimeoutResult == [][C9_Step]_vars

\* A connect with a timeout returned a MultiResult with both hosts: one timed
\* out, the other connected
C9_Witness ==
    /\ ReturnedOk
    /\ op.kind = "connect"
    /\ ~op.prune
    /\ hosts = <<"h1", "h2">>
    /\ DOMAIN ret.mr = {"h1", "h2"}
    /\ ret.mr["h1"].status = -1
    /\ Contains(ret.mr["h1"].stderr, <<"Connection", "timed", "out">>)
    /\ ret.mr["h2"].status = 0

\* C10: execute_map gives a task to exactly the sessions whose host is a key
\* of the host->command mapping, each with the command mapped to its host;
\* the other hosts get no task and no entry; the keys of the MultiResult it
\* returns are the controller's hosts that are keys of the mapping.
MappedSessions == {i \in 1..Len(hosts) : hosts[i] \in DOMAIN op.cmap}

C10_ExecuteMapKeys ==
    op.kind = "execute_map" =>
        /\ \A i \in DOMAIN join_set :
              /\ join_set[i].host \in Range(hosts) \cap DOMAIN op.cmap
              /\ join_set[i].cmd = op.cmap[join_set[i].host]
        /\ \A i \in DOMAIN todo :
              /\ todo[i].host \in Range(hosts) \cap DOMAIN op.cmap
              /\ todo[i].cmd = op.cmap[todo[i].host]
        /\ pc \in {"dispatch", "join"} =>
              /\ Len(todo) + Len(join_set) = Cardinality(MappedSessions)
              /\ {todo[i].host : i \in DOMAIN todo}
                    \cup {join_set[i].host : i \in DOMAIN join_set}
                 = Range(hosts) \cap DOMAIN op.cmap
        /\ ReturnedOk => DOMAIN ret.mr = Range(hosts) \cap DOMAIN op.cmap

\* An execute_map over two hosts with a mapping for the second only returned
C10_Witness ==
    /\ ReturnedOk
    /\ op.kind = "execute_map"
    /\ hosts = <<"h1", "h2">>
    /\ DOMAIN op.cmap = {"h2"}
    /\ DOMAIN ret.mr = {"h2"}

\* C11: for every MultiResult, reading an absent view as the empty mapping:
\* the keys of succeeded and of failed are disjoint and together are the keys
\* of the MultiResult; succeeded holds exactly the hosts with status 0 and
\* failed exactly those with another status, each with the Result the
\* MultiResult has for it.
ViewKeys(view) == IF view = <<>> THEN {} ELSE DOMAIN view[1]

C11_ViewsPartition ==
    (mr_call.failed # <<>> /\ mr_call.succeeded # <<>>) =>
        LET f == mr_call.failed[1]
            s == mr_call.succeeded[1]
        IN /\ ViewKeys(s) \cap ViewKeys(f) = {}
           /\ ViewKeys(s) \cup ViewKeys(f) = DOMAIN multi_result
           /\ ViewKeys(s) = {h \in DOMAIN multi_result : multi_result[h].status = 0}
           /\ ViewKeys(f) = {h \in DOMAIN multi_result : multi_result[h].status # 0}
           /\ \A h \in ViewKeys(s) : s[1][h] = multi_result[h]
           /\ \A h \in ViewKeys(f) : f[1][h] = multi_result[h]

\* Both views were read of a MultiResult with a succeeded host, a host whose
\* command failed and a host whose task failed
C11_Witness ==
    /\ mr_call.failed # <<>>
    /\ mr_call.succeeded # <<>>
    /\ DOMAIN multi_result = {"h1", "h2", "h3"}
    /\ multi_result["h1"].status = 0
    /\ multi_result["h2"].status = 1
    /\ multi_result["h3"].status = -1
    /\ DOMAIN mr_call.failed[1][1] = {"h2", "h3"}

\* C12: raise_if_any_failed raises the partial-failure error exactly when
\* failed is not empty; the message is then 'Operation failed on K of N
\* host(s)', K the number of Results with a status other than 0 and N the
\* number of Results, and the error's failed and succeeded attributes are the
\* failed and succeeded views of the MultiResult.
NonZero == {h \in DOMAIN multi_result : multi_result[h].status # 0}

-----------------------------------------------------------------------------
(* Session *)

\* The future of slot f returns in this step
Returns(f) == futures[f].pc # "idle" /\ futures'[f].pc = "idle"

\* C13 (as stated): between connect and close a Session creates at most one
\* SFTP subsystem for its cache: no two of the subsystems that sftp_read,
\* sftp_write, sftp_write_data and sftp_list created were created on the same
\* session handle.
C13_OneSubsystemPerSession ==
    \A i, j \in DOMAIN wire.subsystems :
        wire.subsystems[i] = wire.subsystems[j] => i = j

\* C14 (as stated): closed is absorbing: once close has run, the Session is
\* never connected-authenticated again.
C14_Original ==
    IsSome(wire.closed) => IF Async THEN session = None ELSE conn.disconnected

C14_Step ==
    /\ Async =>
         /\ session \in {None} \cup {Some(h) : h \in 1..wire.handles}
         /\ \A f \in Slots :
              /\ Returns(f) /\ futures[f].pc = "store" =>
                   /\ futures[f].op \in ConnectOps
                   /\ IF session_ret'.kind = "ok"
                      THEN session' = Some(futures[f].handle)
                      ELSE /\ session_ret'.kind = "TimeoutError"
                           /\ futures[f].deadline
                           /\ UNCHANGED session
              /\ Returns(f) /\ futures[f].op \in CloseOps =>
                   session' = None /\ sftp_session' = None
    /\ Sync => (conn.disconnected => conn'.disconnected)

\* C14 (amended): an asynchronous Session is either unconnected (no handle) or
\* connected-authenticated (a handle it established); close makes it
\* unconnected and clears the SFTP cache, and a connect or scope entry that
\* succeeds makes it connected-authenticated with the new handle, after a
\* close as well as before one.  A synchronous Session stays disconnected once
\* closed.
C14_ClosedReconnects == [][C14_Step]_vars

\* An asynchronous Session that was closed and is connected-authenticated
C14_Witness == Async /\ IsSome(wire.closed) /\ IsSome(session)

C15_Step ==
    /\ Async =>
         \A f \in Slots :
            Returns(f) /\ futures[f].op \in CloseOps /\ IsSome(wire.closed) =>
               /\ session_ret'.kind = "ok"
               /\ [session |-> session', sftp_session |-> sftp_session'] =
                     Unwrap(wire.closed)
               /\ Fields = Unwrap(wire.closed) => UNCHANGED <<session, sftp_session>>
    /\ Sync /\ session_ret'.op \in SyncCloseOps /\ IsSome(wire.closed) =>
         /\ session_ret'.kind = "ok"
         /\ conn'.disconnected = Unwrap(wire.closed).disconnected
         /\ conn'.sftp_conn = Unwrap(wire.closed).sftp_conn
         /\ conn.disconnected => conn' = conn

C16_Original_Step ==
    Async =>
      \A f \in Slots :
         Returns(f) /\ futures[f].op \in TransportOps /\ Stepped(f).nc =>
            /\ session_ret'.kind = "RuntimeError"
            /\ session_ret'.text = NotConnected
            /\ futures[f].handle = 0
            /\ UNCHANGED <<session, sftp_session>>

\* C16 (as stated): a future of execute, shell, sftp_read, sftp_write,
\* sftp_write_data, sftp_list or the tailer scope entry that finds the Session
\* without a handle from its call to its end returns the RuntimeError "Not
\* connected", never obtained a handle to open a channel on, and changes
\* neither the handle nor the SFTP cache.
C16_Original == [][C16_Original_Step]_vars

\* C17 (as stated): after execute of a synchronous Session has returned, on
\* whatever path, the timeout of the session is what it was before the call.
C17_Original ==
    Sync /\ session_ret.op = "execute" => conn.session_timeout = session_ret.before

-----------------------------------------------------------------------------
(* Channel reader *)

IsData == [msg |-> "Data", ext |-> 0]
IsStderr == [msg |-> "ExtendedData", ext |-> 1]

RECURSIVE Frames(_, _)
\* The concatenation, in arrival order, of the frames of the messages of one
\* kind
Frames(msgs, kind) ==
    IF msgs = <<>> THEN <<>>
    ELSE (IF msgs[1].msg = kind.msg /\ msgs[1].ext = kind.ext
          THEN msgs[1].data ELSE <<>>) \o Frames(Tail(msgs), kind)
Reported(msgs) == {i \in 1..Len(msgs) : msgs[i].msg = "ExitStatus"}

\* The exit status the server reported last, 0 when it reported none
LastReported(msgs) ==
    IF Reported(msgs) = {} THEN NoStatus
    ELSE msgs[CHOOSE i \in Reported(msgs) : \A j \in Reported(msgs) : j <= i].exit_status

\* The integer i is the u32 n
EqualsU32(i, n) == i >= 0 /\ i \div TwoTo16 = n.hi /\ i % TwoTo16 = n.lo

\* The integer i is the u32 n less 2^32
EqualsU32Less2To32(i, n) ==
    i < 0 /\ (i \div TwoTo16) + TwoTo16 = n.hi /\ i % TwoTo16 = n.lo

\* execute completed with a Result
Completed == IsSome(reader.result) /\ Unwrap(reader.result).k = "ok"

-----------------------------------------------------------------------------
(* File tailer *)

\* The scope is left in this step, and the file answered the exit
ExitStep == InScope /\ history'.exit \in {"ok", "panic"}

\* The bytes of the file the exit read that lie beyond the size at entry
Appended == SliceFrom(remote, Unwrap(history.entry))

C19_Original_Step ==
    ExitStep /\ history.fresh /\ history.grew =>
        /\ history'.exit = "ok"
        /\ tailer'.contents = Some(Lossy(Appended))

\* C19 (as stated): the exit of a scope that a tailer entered with its
\* init_pos unset, on a file that only grew during the scope, completes, and
\* contents is then the text of exactly the bytes appended between entry and
\* exit.
C19_Original == [][C19_Original_Step]_vars

C20_Original_Step ==
    ExitStep /\ history.fresh /\ Len(remote) < Unwrap(history.entry) =>
        /\ history'.exit = "ok"
        /\ tailer'.contents = Some(<<>>)

\* C20 (as stated): the exit of a scope that a tailer entered with its
\* init_pos unset, on a file that is shorter than it was at entry, completes
\* without error, and contents is then the empty text.
C20_Original == [][C20_Original_Step]_vars

\* C21 (as stated): when read(from_pos) returns on a file of length L, it
\* has returned the empty text if from_pos > L and the text of the bytes
\* [from_pos, L) otherwise, and last_pos is L, in the synchronous and in the
\* asynchronous tailer.
C21_Original ==
    IsSome(history.read) /\ Unwrap(history.read).k = "ok" =>
        LET r == Unwrap(history.read)
            L == Len(remote)
        IN /\ r.text = IF r.from > L THEN <<>> ELSE Lossy(SliceFrom(remote, r.from))
           /\ tailer.last_pos = L

\* C22 (as stated): last_pos never decreases, whatever the tailer is asked
\* and whatever happens to the remote file.
C22_Original == [][tailer'.last_pos >= tailer.last_pos]_vars

C22_Step ==
    \/ tailer'.last_pos >= Min(tailer.last_pos, Len(remote))
    \/ /\ SeekEnd("no_size") \/ Enter("no_size")
       /\ tailer'.last_pos = 0

\* C22 (amended): last_pos is not monotonic.  No step leaves last_pos below
\* the smaller of what it was and the length of the remote file, so that it
\* decreases only when the file is shorter than last_pos, but for a seek_end
\* or scope entry whose stat reports no size, which sets it to 0.
C22_LastPosFollowsFile == [][C22_Step]_vars

\* A read found the file truncated below the size it had at scope entry and
\* has set last_pos back to the length of the file
C22_Witness ==
    /\ IsSome(history.entry)
    /\ ~history.grew
    /\ IsSome(history.read)
    /\ Unwrap(history.read).k = "ok"
    /\ Unwrap(history.read).from > Len(remote)
    /\ tailer.last_pos = Len(remote)
    /\ tailer.last_pos < Unwrap(history.entry)

\* C23: once init_pos is set, no seek_end, read, scope entry or scope exit,
\* and no change of the remote file, changes it.
C23_InitPosSetOnce ==
    [][IsSome(tailer.init_pos) => tailer'.init_pos = tailer.init_pos]_vars

\* A scope was entered by an asynchronous tailer whose init_pos an earlier
\* seek_end or entry had set, on a file of another length: the entry has moved
\* last_pos and left init_pos
C23_Witness ==
    /\ tailer.impl = "async"
    /\ InScope
    /\ ~history.fresh
    /\ IsSome(tailer.init_pos)
    /\ Unwrap(history.entry) # Unwrap(tailer.init_pos)
    /\ tailer.last_pos = Unwrap(history.entry)

-----------------------------------------------------------------------------
(* Multi Tailer *)

\* The tasks of the operation whose future failed: it returned an error or
\* panicked
FailedTasks == {i \in DOMAIN join_set : join_set[i].out.k \in {"err", "panic"}}

AllTailers == DOMAIN Unwrap(mft).tailers

C24_Step ==
    op.kind = "tail_enter" /\ pc = "join" =>
        \* a failed initialization is never taken as the value of its host
        /\ \A i \in FailedTasks :
              ~(i \in DOMAIN join_set' /\ join_set'[i].st = "joined")
        \* the entry succeeds only when no initialization failed, and then
        \* every tailer is initialized
        /\ pc' = "idle" /\ ret'.kind = "ok" =>
              /\ FailedTasks = {}
              /\ Unwrap(mft').scope = "in"
              /\ Unwrap(mft').initialized = AllTailers
        \* when it fails the caller gets an exception and no mapping, and the
        \* scope is not entered
        /\ pc' = "idle" /\ ret'.kind # "ok" =>
              /\ FailedTasks # {}
              /\ ret'.kind \in {"tailer_init_failed", "task_panic"}
              /\ ret'.mr = <<>>
              /\ results' = <<>>
              /\ mft' = mft
              /\ Unwrap(mft).scope = "out"

Captured(out) == IF out.k = "ok" THEN out.text ELSE ErrorPrefixed(out.text)

C25_Original_Step ==
    op.kind = "tail_exit" /\ pc = "join" /\ pc' = "idle" =>
        /\ ret'.kind = "ok"
        /\ Unwrap(mft').scope = "done"
        /\ DOMAIN Unwrap(mft').contents = Range(Unwrap(mft).hosts)
        /\ \A h \in DOMAIN Unwrap(mft').contents :
              \E i \in DOMAIN join_set :
                  /\ join_set[i].host = h
                  /\ Unwrap(mft').contents[h] = Captured(join_set[i].out)

\* C25 (as stated): the scope exit of a MultiFileTailer never raises, and
\* leaves in contents one entry for every host of the MultiFileTailer: the
\* text its tailer captured when the finalization succeeded, "Error:" and the
\* message when it failed.
C25_Original == [][C25_Original_Step]_vars

-----------------------------------------------------------------------------
(* Interactive shell *)

\* What the client has put on the channel up to the first read that returned
\* a Result, and since
SentBeforeRead == SubSeq(shell.sent, 1, Unwrap(shell.read_at))
SentAfterRead == SubSeq(shell.sent, Unwrap(shell.read_at) + 1, Len(shell.sent))

\* C26 (as stated): once read has returned, the shell has sent EOF on the
\* write side of its channel, and no send writes anything to the channel any
\* more, in the synchronous and in the asynchronous shell.
C26_Original ==
    IsSome(shell.read_at) =>
        /\ EofSent \in Range(SentBeforeRead)
        /\ Range(SentAfterRead) \subseteq {EofSent, CloseSent}

\* What the step put on the channel
Added == SubSeq(shell'.sent, Len(shell.sent) + 1, Len(shell'.sent))

C27_Original_Step ==
    shell.scope = "in" /\ shell'.scope = "done" =>
        \* a shell with a PTY: "exit\n" once, and nothing but EOF and CLOSE
        \* after it
        /\ shell.pty =>
              /\ Len(Added) >= Len(ExitPayload)
              /\ SubSeq(Added, 1, Len(ExitPayload)) = ExitPayload
              /\ Range(SubSeq(Added, Len(ExitPayload) + 1, Len(Added)))
                    \subseteq {EofSent, CloseSent}
        \* an exit that returns has called read and stored its Result
        /\ shell'.ret = "ok" =>
              /\ IsSome(shell'.read_ret)
              /\ shell'.result = shell'.read_ret
        \* the channel is closed, by the client or by the server
        /\ Closed(shell') \/ shell'.remote_closed

\* C27 (as stated): the scope exit of an interactive shell with a PTY writes
\* "exit\n" to the channel once, with no newline added, before it reads; the
\* Result of the read is stored in result; and whichever way the exit ends,
\* the channel is closed.
C27_Original == [][C27_Original_Step]_vars

-----------------------------------------------------------------------------
(* Authentication *)

\* The strategy for credentials of which `key` and `pwd` say whether the key
\* path and the password were supplied
FirstApplicable(impl, key, pwd) ==
    IF key THEN "publickey_file"
    ELSE IF pwd THEN "password"
    ELSE IF impl = "sync" THEN "agent" ELSE "default_keys"

\* The default keys the search has to try, in the environment e: the ones
\* that exist and load, up to and with the first the server accepts
ToTry(e) ==
    {i \in 1..Len(DefaultKeys) :
        /\ e.defaults[i] \notin {"missing", "unloadable"}
        /\ \A j \in 1..(i - 1) : e.defaults[j] # "accepted"}

\* The requests d are those of the one strategy that applies, when `key` and
\* `pwd` say whether the key path and the password were supplied
OneStrategy(a, d, e, key, pwd) ==
    /\ d.strategy = FirstApplicable(a.impl, key, pwd)
    /\ d.strategy = "publickey_file" =>
          /\ Len(d.requests) <= 1
          /\ \A k \in 1..Len(d.requests) :
                d.requests[k] = Request("publickey", Unwrap(a.key_path),
                                        IF pwd THEN a.password ELSE None)
    /\ d.strategy = "password" =>
          d.requests = <<Request("password", Unwrap(a.password), None)>>
    /\ d.strategy = "agent" => d.requests = <<Request("agent", "", None)>>
    /\ d.strategy = "default_keys" =>
          /\ Len(d.requests) = Cardinality(ToTry(e))
          /\ \A i \in ToTry(e) :
                d.requests[Cardinality({j \in ToTry(e) : j <= i})] =
                    Request("publickey", DefaultKeys[i], None)
          /\ d.res = "ok" <=> \E i \in ToTry(e) : e.defaults[i] = "accepted"

\* C28 as stated: connect uses exactly the first applicable authentication
\* strategy: the key file when a key path is supplied, the password serving
\* only as its passphrase; otherwise the password when one is supplied;
\* otherwise the agent (sync) or the default keys in order up to the first
\* that authenticates (async); and no later strategy is tried after an
\* earlier one fails.  Here a key path or password is supplied when the
\* caller gave one, whatever its text
C28_Original ==
    (auth # Unused /\ auth.done # None) =>
        OneStrategy(auth, Unwrap(auth.done), Unwrap(auth.env),
                    auth.key_path # None, auth.password # None)

\* Whether the engine takes an optional string as supplied: the synchronous
\* engine takes the empty string as not supplied
Supplied(impl, o) == o # None /\ (impl = "sync" => Unwrap(o) # "")

\* C28: connect uses exactly the first applicable authentication strategy, as
\* above, where the synchronous engine takes an empty key path or an empty
\* password as not supplied and the asynchronous engine takes any key path or
\* password given as supplied
C28_FirstApplicableStrategy ==
    (auth # Unused /\ auth.done # None) =>
        OneStrategy(auth, Unwrap(auth.done), Unwrap(auth.env),
                    Supplied(auth.impl, auth.key_path),
                    Supplied(auth.impl, auth.password))

\* A key path and a password were supplied, the server rejected the key, and
\* authentication ended after that one request
C28_Witness ==
    /\ auth # Unused
    /\ auth.done # None
    /\ auth.key_path = Some("key")
    /\ auth.password = Some("secret")
    /\ Unwrap(auth.env).loads
    /\ Unwrap(auth.env).answer = "rejected"
    /\ Len(Unwrap(auth.done).requests) = 1
    /\ Unwrap(auth.done).res # "ok"

-----------------------------------------------------------------------------
(* Scoped acquisition of the controller *)

\* The ids of the Sessions of a list
Ids(cs) == {cs[i].id : i \in 1..Len(cs)}

\* While __enter__ runs, its connect does not prune and leaves the lists as
\* they were at entry, and when it returns a MultiResult it has spawned one
\* task per Session, in order; __exit__ leaves no Session of the controller
\* with a handle, leaves the lists alone, and returns Ok(false)
C29_Step ==
    /\ acquired.scope = "entering" =>
          /\ op.kind = "connect" /\ ~op.prune
          /\ hosts' = Unwrap(acquired.entry).hosts
          /\ connections' = Unwrap(acquired.entry).connections
          /\ (pc = "join" /\ ret'.kind = "ok") =>
                [i \in 1..Len(join_set) |-> join_set[i].conn] = connections
    /\ (acquired.scope = "in" /\ acquired'.scope = "done") =>
          /\ Ids(connections) \cap acquired'.handles = {}
          /\ hosts' = hosts /\ connections' = connections
          /\ Unwrap(acquired'.exit).k = "ok"
          /\ ~Unwrap(acquired'.exit).suppress

\* C29: scope entry of the Fan-out Controller runs connect on every Session
\* without pruning, so the hosts and Sessions lists after entry equal the
\* lists before entry even when some connects fail; scope exit closes every
\* Session whatever the exit cause and does not fail
C29_ScopedAcquisition == [][C29_Step]_vars

\* The body of a with-statement raised, one of the two Sessions held a handle
\* and the other did not, and __exit__ has returned
C29_Witness ==
    /\ acquired.scope = "done"
    /\ Len(connections) = 2
    /\ Unwrap(acquired.entry).connections = connections
    /\ Unwrap(acquired.exit).cause # None
    /\ Cardinality(Unwrap(acquired.exit).open) = 1
    /\ acquired.handles = {}

-----------------------------------------------------------------------------
(* Exit status *)

\* C30 as stated: a Result returned by execute carries the remote process
\* status when and only when the channel reached EOF and reported an exit
\* status: when the channel closes without an exit-status message, execute
\* returns no normal Result
C30_Original ==
    (reader # Unused /\ reader.result # None /\ Unwrap(reader.result).k = "ok") =>
        /\ \E i \in 1..Len(reader.delivered) : reader.delivered[i].msg = "Eof"
        /\ \E i \in 1..Len(reader.delivered) :
              /\ reader.delivered[i].msg = "ExitStatus"
              /\ reader.exit_code = reader.delivered[i].exit_status

\* The positions of the exit-status messages among the delivered ones
StatusAt(r) == {i \in 1..Len(r.delivered) : r.delivered[i].msg = "ExitStatus"}

\* C31 as stated: the reader of execute records the first exit-status seen:
\* when the channel delivers more than one exit-status message before it
\* closes, the status of the Result is that of the first one
C31_Original ==
    (reader # Unused /\ reader.result # None /\ Unwrap(reader.result).k = "ok"
        /\ StatusAt(reader) # {}) =>
        \E i \in StatusAt(reader) :
            /\ \A j \in StatusAt(reader) : i <= j
            /\ Unwrap(reader.result).res.status = AsI32(reader.delivered[i].exit_status)

-----------------------------------------------------------------------------
(* Asynchronous shell read *)

RECURSIVE FramesOf(_, _)
\* The bytes of the frames of one message type among msgs, in order
FramesOf(msgs, type) ==
    IF msgs = <<>> THEN <<>>
    ELSE (IF msgs[1].msg = type THEN msgs[1].data ELSE <<>>) \o FramesOf(Tail(msgs), type)

\* C32: the read of the asynchronous shell has two phases.  It ends only
\* when a wait expires or the channel closes, never on a non-data event; what
\* it took from the channel is what arrived until then, in order; when no
\* data or extended-data frame arrived it returns the empty Result with
\* status 0; otherwise it returns in one Result, in arrival order, every data
\* frame as stdout and every extended-data frame as stderr, with status 0
C32_TwoPhaseRead ==
    (reader # Unused /\ reader.result # None) =>
        /\ reader.ended \in {Some(WaitClosed), Some(WaitElapsed)}
        /\ reader.ended = Some(WaitClosed) => channel = <<>>
        /\ reader.delivered \o channel = reader.arriving
        /\ Unwrap(reader.result) =
              SSHResult(Lossy(FramesOf(reader.delivered, "Data")),
                        Lossy(FramesOf(reader.delivered, "ExtendedData")), 0)

\* A read that met a non-data event before its first frame, took a data and
\* an extended-data frame, and ended when the channel closed
C32_Witness ==
    /\ reader # Unused
    /\ reader.result # None
    /\ reader.ended = Some(WaitClosed)
    /\ Len(reader.delivered) = 3
    /\ reader.delivered[1].msg \notin {"Data", "ExtendedData"}
    /\ reader.delivered[2].msg = "Data"
    /\ reader.delivered[3].msg = "ExtendedData"

-----------------------------------------------------------------------------
(* Batch size and dispatch *)

\* C33 as stated: every Fan-out Controller has batch_size >= 1, whatever
\* batch_size argument its constructor was given
C33_Original == batch_size >= 1

\* An operation on a controller with batch_size >= 1 is under way
Dispatching == pc # "idle" /\ batch_size >= 1

\* Every task was dispatched and the operation returns or has returned
DispatchedAll == todo = <<>> /\ pc \in {"join", "idle"}

\* Under fair scheduling the dispatch loop of an operation spawns a task for
\* every host and the operation returns: the dispatcher does not deadlock
\* against the running tasks
DispatchReturns == Dispatching ~> (DispatchedAll /\ Returned)

\* C34 as stated: for every host list and every batch_size >= 1, if each
\* per-host task eventually finishes, then under fair scheduling the fan-out
\* operation dispatches a task for every host, joins them all and returns,
\* with all semaphore permits released
C34_Original ==
    Dispatching ~>
        (DispatchedAll /\ Returned /\ InFlight = {} /\ semaphore = batch_size)

-----------------------------------------------------------------------------
(* Aggregation *)

\* The hosts of the tasks of the operation are pairwise distinct
DistinctHosts ==
    \A i, j \in DOMAIN join_set : join_set[i].host = join_set[j].host => i = j

\* The entry the join loop makes for a task from the output of that task alone
OwnResult(i) ==
    JoinArm(op.kind, <<>>, join_set[i].host, join_set[i].out).results[join_set[i].host]

\* When an operation over distinct hosts returns a MultiResult, its keys are
\* the hosts of the tasks and each host has the Result of its own task
C35_Step ==
    (pc = "join" /\ pc' = "idle" /\ ret'.kind = "ok" /\ op.kind \in ControllerOps
        /\ DistinctHosts) =>
        /\ DOMAIN ret'.mr = {join_set[i].host : i \in DOMAIN join_set}
        /\ \A i \in DOMAIN join_set : ret'.mr[join_set[i].host] = OwnResult(i)

\* C35: for a controller whose host identifiers are pairwise distinct and
\* whose per-host task outcomes are fixed, the MultiResult a fan-out operation
\* returns is the same for every interleaving and every completion order of
\* the tasks: it is the mapping of each host to the Result of its own task
C35_AggregationDeterministic == [][C35_Step]_vars

\* Two tasks on distinct hosts with different outputs, the second joined
\* before the first
C35_Witness ==
    /\ pc = "join"
    /\ op.kind \in ControllerOps
    /\ Len(join_set) = 2
    /\ DistinctHosts
    /\ join_set[2].st = "joined"
    /\ join_set[1].st = "finished"
    /\ join_set[1].out # join_set[2].out
    /\ join_set[1].out.k # "panic"
    /\ DOMAIN results = {join_set[2].host}

\* The positions of the Sessions whose own connect task succeeded
OwnSucceeded == {i \in DOMAIN join_set : join_set[i].out.k = "ok"}

C36_Original_Step ==
    (pc = "join" /\ pc' = "idle" /\ ret'.kind = "ok" /\ op.kind = "connect" /\ op.prune) =>
        /\ hosts' = Keep(hosts, OwnSucceeded, 1)
        /\ connections' = Keep(connections, OwnSucceeded, 1)

\* C36 as stated: connect(prune_failures=true) keeps a (host, Session) pair
\* if and only if the connect task of that Session succeeded, also when two
\* Sessions of the controller share a host identifier
C36_Original == [][C36_Original_Step]_vars

-----------------------------------------------------------------------------
(* The two mutexes of an asynchronous Session *)

\* C37 as stated: under every interleaving of close with the SFTP operations
\* in flight on an asynchronous Session, a cached SFTP handle is never present
\* while the session handle is absent
C37_Original == Async => (sftp_session # None => session # None)

\* A step assigns a handle to the Session only as the last step of a connect
\* or __aenter__ that returns normally, and the handle is the one that call
\* authenticated; a connect or __aenter__ that returns an error leaves the
\* handle as it was
C38_Step ==
    Async =>
        /\ (session' # session /\ session' # None) =>
              \E f \in Slots :
                  /\ futures[f].op \in ConnectOps
                  /\ Returns(f)
                  /\ session_ret'.kind = "ok"
                  /\ futures[f].handle \in 1..wire.handles
                  /\ session' = Some(futures[f].handle)
        /\ \A f \in Slots :
              (futures[f].op \in ConnectOps /\ Returns(f) /\ session_ret'.kind # "ok") =>
                  session' = session

\* C38: an asynchronous Session stores a session handle only after
\* authentication has succeeded: when connect fails at TCP or handshake, at
\* key loading, at authentication, or because the connect timeout expires at
\* any suspension point, the call has not changed the stored handle, so a
\* stored handle is always an authenticated one
C38_StoreAfterAuthentication == [][C38_Step]_vars

\* A connect authenticated a handle and timed out waiting to store it: the
\* Session, never closed, has no handle
C38_Witness ==
    /\ Async
    /\ session_ret.kind = "TimeoutError"
    /\ session_ret.text = ConnectionTimedOut
    /\ wire.handles = 1
    /\ wire.closed = None
    /\ session = None
    /\ \A f \in Slots : futures[f].pc = "idle"

-----------------------------------------------------------------------------
(* Timeout 0 *)

\* C39 as stated: a timeout of 0 means no deadline in every fan-out
\* operation: in execute and execute_map called with a per-call timeout of 0,
\* as in connect with timeout 0, no task is cut off by a deadline and none
\* ends with the synthetic timed-out Result
C39_Original ==
    (op # Unused /\ op.kind \in {"connect", "execute", "execute_map"}
        /\ op.timeout = Some(0)) =>
        \A i \in DOMAIN join_set :
            join_set[i].st \in {"finished", "joined"} =>
                /\ join_set[i].raw.k # "hang"
                /\ join_set[i].out = join_set[i].raw

-----------------------------------------------------------------------------
(* The two mutexes of a Session *)

\* The only future that waits for one mutex with the guard of the other is
\* close, with the cache locked and the handle awaited
LockOrder ==
    \A f \in Slots :
        (Wants(futures[f]) # {} /\ futures[f].held # {}) =>
            /\ futures[f].held = {"sftp_session"}
            /\ Wants(futures[f]) = {"session"}

\* C40: under every interleaving of close, connect, execute, shell and SFTP
\* operations on one asynchronous Session no future waits for the cache with
\* the guard of the handle, so the two lock orders never conflict, no mutex
\* has two owners, and every future that was started returns, provided the
\* network calls return
C40_DeadlockFreedom ==
    /\ [](LockOrder
          /\ \A f, g \in Slots :
                 f # g => futures[f].held \cap futures[g].held = {})
    /\ \A f \in Slots : (futures[f].pc # "idle") ~> (futures[f].pc = "idle")

\* close owns the cache and waits for the handle, whose guard an SFTP
\* operation in get_or_init_sftp owns
C40_Witness ==
    /\ futures # Unused
    /\ wire = Unused
    /\ \E f, g \in Slots :
          /\ futures[f].op \in CloseOps
          /\ futures[f].pc = "lock_session"
          /\ futures[f].held = {"sftp_session"}
          /\ futures[g].op \in SftpOps
          /\ futures[g].pc = "read"
          /\ futures[g].held = {"session"}

====
